---- MODULE Spec2Model ----
(***************************************************************************)
(* Expression evaluation and financial ratio computation engine of the     *)
(* Smart financial ratio analyzer.                                          *)
(*                                                                         *)
(* Strings are TLA+ strings handled character by character (Len, SubSeq,   *)
(* \o), so that normalisation, regular-expression substitution and parsing *)
(* work on the formula text as the Python code does.  Python floats are    *)
(* modelled as exact rationals [n, d] in lowest terms.                     *)
(***************************************************************************)
EXTENDS Integers, Sequences, FiniteSets, TLC

VARIABLES pc, variable, normalized, formula, data, normalize_vars, set_order,
          validation, evaluation, record, custom_ratios, dev_mode, ratios,
          images, objects, extraction_results, locals, merged_data,
          registry, calls, file, writers

\* the variables of merge_financial_data, of the registry of base ratios
\* and of the store of custom ratios
merge_vars == <<images, objects, extraction_results, locals, merged_data>>

registry_vars == <<registry, calls>>

store_vars == <<file, writers>>

vars == <<pc, variable, normalized, formula, data, normalize_vars, set_order,
          validation, evaluation, record, custom_ratios, dev_mode, ratios,
          merge_vars, registry_vars, store_vars>>

(***************************************************************************)
(* Python str primitives                                                   *)
(***************************************************************************)
Chr(s, i) == SubSeq(s, i, i)

ASCII_UPPER == "ABCDEFGHIJKLMNOPQRSTUVWXYZ"

ASCII_LOWER == "abcdefghijklmnopqrstuvwxyz"

DIGITS == "0123456789"

IndexIn(alphabet, c) ==
   IF \E i \in 1..Len(alphabet) : Chr(alphabet, i) = c
   THEN CHOOSE i \in 1..Len(alphabet) : Chr(alphabet, i) = c
   ELSE 0

CharsOf(alphabet) == {Chr(alphabet, i) : i \in 1..Len(alphabet)}

LowerMap == [c \in CharsOf(ASCII_UPPER) |-> Chr(ASCII_LOWER, IndexIn(ASCII_UPPER, c))]

UpperMap == [c \in CharsOf(ASCII_LOWER) |-> Chr(ASCII_UPPER, IndexIn(ASCII_LOWER, c))]

LowerChar(c) == IF c \in DOMAIN LowerMap THEN LowerMap[c] ELSE c

UpperChar(c) == IF c \in DOMAIN UpperMap THEN UpperMap[c] ELSE c

\* str.lower and str.upper, character by character (the two halves of the
\* string are converted separately and concatenated)
RECURSIVE lower(_)
lower(s) ==
   IF Len(s) <= 1 THEN LowerChar(s)
   ELSE lower(SubSeq(s, 1, Len(s) \div 2)) \o lower(SubSeq(s, Len(s) \div 2 + 1, Len(s)))

RECURSIVE upper(_)
upper(s) ==
   IF Len(s) <= 1 THEN UpperChar(s)
   ELSE upper(SubSeq(s, 1, Len(s) \div 2)) \o upper(SubSeq(s, Len(s) \div 2 + 1, Len(s)))

RECURSIVE lstrip(_)
lstrip(s) == IF s # "" /\ Chr(s, 1) = " " THEN lstrip(SubSeq(s, 2, Len(s))) ELSE s

RECURSIVE rstrip(_)
rstrip(s) == IF s # "" /\ Chr(s, Len(s)) = " " THEN rstrip(SubSeq(s, 1, Len(s) - 1)) ELSE s

strip(s) == rstrip(lstrip(s))

\* Python `sub in s`
contains(s, sub) ==
   \E i \in 1..(Len(s) - Len(sub) + 1) : SubSeq(s, i, i + Len(sub) - 1) = sub

\* Python s.replace(old, new) for a one-character old, as at every call site
RECURSIVE replace(_, _, _)
replace(s, old, new) ==
   IF Len(s) <= 1 THEN (IF s = old THEN new ELSE s)
   ELSE replace(SubSeq(s, 1, Len(s) \div 2), old, new)
        \o replace(SubSeq(s, Len(s) \div 2 + 1, Len(s)), old, new)

(***************************************************************************)
(* ratios_manager.py: alias table and normalize_variable_name              *)
(***************************************************************************)
VARIABLE_NAME_MAPPINGS ==
   <<
      <<"total assets", "total_assets">>,
      <<"totalassets", "total_assets">>,
      <<"total_assets", "total_assets">>,
      <<"assets", "total_assets">>,
      <<"current assets", "current_assets">>,
      <<"currentassets", "current_assets">>,
      <<"current_assets", "current_assets">>,
      <<"fixed assets", "fixed_assets">>,
      <<"fixedassets", "fixed_assets">>,
      <<"fixed_assets", "fixed_assets">>,
      <<"total liabilities", "total_liabilities">>,
      <<"totalliabilities", "total_liabilities">>,
      <<"total_liabilities", "total_liabilities">>,
      <<"liabilities", "total_liabilities">>,
      <<"current liabilities", "current_liabilities">>,
      <<"currentliabilities", "current_liabilities">>,
      <<"current_liabilities", "current_liabilities">>,
      <<"total equity", "total_equity">>,
      <<"totalequity", "total_equity">>,
      <<"total_equity", "total_equity">>,
      <<"equity", "total_equity">>,
      <<"shareholders equity", "total_equity">>,
      <<"shareholders' equity", "total_equity">>,
      <<"shareholdersequity", "total_equity">>,
      <<"shareholders_equity", "total_equity">>,
      <<"capital", "total_equity">>,
      <<"revenue", "revenue">>,
      <<"sales", "revenue">>,
      <<"total revenue", "revenue">>,
      <<"totalrevenue", "revenue">>,
      <<"net sales", "revenue">>,
      <<"netsales", "revenue">>,
      <<"net income", "net_income">>,
      <<"netincome", "net_income">>,
      <<"net_income", "net_income">>,
      <<"profit", "net_income">>,
      <<"net profit", "net_income">>,
      <<"netprofit", "net_income">>,
      <<"cost of goods sold", "cost_of_goods_sold">>,
      <<"costofgoodssold", "cost_of_goods_sold">>,
      <<"cost_of_goods_sold", "cost_of_goods_sold">>,
      <<"cogs", "cost_of_goods_sold">>,
      <<"inventory", "inventory">>,
      <<"stock", "inventory">>,
      <<"average inventory", "average_inventory">>,
      <<"averageinventory", "average_inventory">>,
      <<"accounts receivable", "accounts_receivable">>,
      <<"accountsreceivable", "accounts_receivable">>,
      <<"accounts_receivable", "accounts_receivable">>,
      <<"receivables", "accounts_receivable">>,
      <<"debtors", "accounts_receivable">>,
      <<"ebit", "ebit">>,
      <<"operating income", "ebit">>,
      <<"operatingincome", "ebit">>,
      <<"interest expense", "interest_expense">>,
      <<"interestexpense", "interest_expense">>,
      <<"interest_expense", "interest_expense">>,
      <<"interest", "interest_expense">>
   >>

MappingKeys == {VARIABLE_NAME_MAPPINGS[i][1] : i \in 1..Len(VARIABLE_NAME_MAPPINGS)}

MappingLookup(key) ==
   VARIABLE_NAME_MAPPINGS[CHOOSE i \in 1..Len(VARIABLE_NAME_MAPPINGS) :
                             VARIABLE_NAME_MAPPINGS[i][1] = key][2]

\* the first entry, in table order, that overlaps the name as a substring
PartialMatches(name) ==
   {i \in 1..Len(VARIABLE_NAME_MAPPINGS) :
       \/ contains(VARIABLE_NAME_MAPPINGS[i][1], name)
       \/ contains(name, VARIABLE_NAME_MAPPINGS[i][1])}

Min(S) == CHOOSE x \in S : \A y \in S : x <= y

normalize_variable_name(v) ==
   LET name == strip(lower(v)) IN
   IF name \in MappingKeys THEN MappingLookup(name)
   ELSE IF PartialMatches(name) # {}
        THEN VARIABLE_NAME_MAPPINGS[Min(PartialMatches(name))][2]
        ELSE replace(replace(name, " ", "_"), "'", "")

(***************************************************************************)
(* Python dicts with insertion order: a sequence of <<key, value>> pairs   *)
(* with distinct keys.                                                     *)
(***************************************************************************)
HasKey(d, k) == \E i \in 1..Len(d) : d[i][1] = k

DictGet(d, k) == d[CHOOSE i \in 1..Len(d) : d[i][1] = k][2]

\* list(dict.fromkeys(seq)): first occurrences, in order
Dedupe(seq) ==
   LET firsts  == {i \in 1..Len(seq) : \A j \in 1..(i - 1) : seq[j] # seq[i]}
       rank(i) == Cardinality({j \in firsts : j < i})
   IN [k \in 1..Cardinality(firsts) |-> seq[CHOOSE i \in firsts : rank(i) = k - 1]]

Reverse(seq) == [i \in 1..Len(seq) |-> seq[Len(seq) + 1 - i]]

\* the concatenation of a sequence of sequences
RECURSIVE Flatten(_)
Flatten(seqs) ==
   IF seqs = <<>> THEN <<>>
   ELSE IF Len(seqs) = 1 THEN seqs[1]
   ELSE Flatten(SubSeq(seqs, 1, Len(seqs) \div 2))
        \o Flatten(SubSeq(seqs, Len(seqs) \div 2 + 1, Len(seqs)))

Max(S) == CHOOSE x \in S : \A y \in S : x >= y

(***************************************************************************)
(* Python re: \b<literal>\b with re.IGNORECASE                             *)
(***************************************************************************)
WordChars == CharsOf(ASCII_LOWER) \cup CharsOf(ASCII_UPPER) \cup CharsOf(DIGITS) \cup {"_"}

IsWordChar(c) == c \in WordChars

\* is position i of text a word character (positions outside the text are not)
WordAt(text, i) == i >= 1 /\ i <= Len(text) /\ IsWordChar(Chr(text, i))

\* \b between positions i and i + 1
Boundary(text, i) == WordAt(text, i) # WordAt(text, i + 1)

MatchAt(text, i, literal) ==
   /\ i + Len(literal) - 1 <= Len(text)
   /\ Boundary(text, i - 1)
   /\ Boundary(text, i + Len(literal) - 1)
   /\ lower(SubSeq(text, i, i + Len(literal) - 1)) = lower(literal)

\* pattern.findall(text) is non-empty
re_matches(literal, text) == \E i \in 1..Len(text) : MatchAt(text, i, literal)

\* pattern.sub(repl, text): leftmost non-overlapping matches, scanned from i
RECURSIVE re_sub_from(_, _, _, _)
re_sub_from(literal, repl, text, i) ==
   LET matches == {j \in i..Len(text) : MatchAt(text, j, literal)}
   IN IF matches = {} THEN SubSeq(text, i, Len(text))
      ELSE SubSeq(text, i, Min(matches) - 1) \o repl
           \o re_sub_from(literal, repl, text, Min(matches) + Len(literal))

re_sub(literal, repl, text) == re_sub_from(literal, repl, text, 1)

(***************************************************************************)
(* formula_evaluator.py: normalize_formula_variables                       *)
(***************************************************************************)
multi_word_terms ==
   << "Current Assets", "Current Liabilities", "Total Assets", "Total Liabilities",
      "Total Equity", "Net Income", "Gross Profit", "Operating Income",
      "Fixed Assets", "Non Current Assets", "Accounts Receivable",
      "Cost of Goods Sold", "Interest Expense", "Income Tax Expense",
      "Retained Earnings", "Share Capital", "Working Capital" >>

\* keys of clean_mapping, in dict order
clean_keys(mapping) == Dedupe([i \in 1..Len(mapping) |-> replace(mapping[i][1], " ", "_")])

\* the candidates before set() and sort(): every key, its space-separated
\* version when it has an underscore, then the multi-word terms
candidate_vars(keys) ==
   Flatten([i \in 1..Len(keys) |->
              IF contains(keys[i], "_")
              THEN <<keys[i], replace(keys[i], "_", " ")>>
              ELSE <<keys[i]>>])
   \o multi_word_terms

\* list(set(...)) then sort(key=len, reverse=True).  The sort is stable, so
\* candidates of equal length stay in the iteration order of the set, which
\* depends on the string hash seed of the process: order = 0 keeps them in
\* first-occurrence order, order = 1 in the opposite order.
possible_vars(keys, order) ==
   LET distinct == Dedupe(candidate_vars(keys))
       longest  == Max({Len(distinct[i]) : i \in 1..Len(distinct)})
       ofLen(n) == LET same == SelectSeq(distinct, LAMBDA v : Len(v) = n)
                   IN IF order = 0 THEN same ELSE Reverse(same)
   IN Flatten([j \in 1..longest |-> ofLen(longest + 1 - j)])

\* matched_key: the first key of clean_mapping equal to, or containing, the
\* normalized candidate; "" when there is none
matched_key(keys, norm_var) ==
   LET hits == {i \in 1..Len(keys) :
                   \/ lower(keys[i]) = lower(norm_var)
                   \/ contains(lower(keys[i]), lower(norm_var))}
   IN IF hits = {} THEN "" ELSE keys[Min(hits)]

\* the body of the for loop over possible_vars
replace_var(text, var, keys) ==
   IF re_matches(var, text)
   THEN LET key == matched_key(keys, normalize_variable_name(var))
        IN IF key # "" THEN re_sub(var, key, text) ELSE text
   ELSE text

\* the for loop over possible_vars: a candidate the text does not contain
\* leaves the text as it is, so the loop goes from match to match
RECURSIVE replace_vars(_, _, _)
replace_vars(text, todo, keys) ==
   LET found == {i \in 1..Len(todo) : re_matches(todo[i], text)}
   IN IF found = {} THEN text
      ELSE replace_vars(replace_var(text, todo[Min(found)], keys),
                        SubSeq(todo, Min(found) + 1, Len(todo)), keys)

normalize_formula_variables(text, mapping, order) ==
   LET keys == clean_keys(mapping)
   IN replace_vars(text, possible_vars(keys, order), keys)

(***************************************************************************)
(* Numbers: Python floats as exact rationals in lowest terms               *)
(***************************************************************************)
Abs(x) == IF x < 0 THEN -x ELSE x

RECURSIVE Gcd(_, _)
Gcd(a, b) == IF b = 0 THEN a ELSE Gcd(b, a % b)

Rat(n, d) ==
   LET g == Gcd(Abs(n), Abs(d))
       sgn == IF d < 0 THEN -1 ELSE 1
   IN [t |-> "num", n |-> sgn * (n \div g), d |-> sgn * (d \div g)]

Num(i) == [t |-> "num", n |-> i, d |-> 1]

None == [t |-> "none"]

Bool(b) == [t |-> "bool", b |-> b]

IsNum(v) == v.t = "num"

(***************************************************************************)
(* ast.parse(text, mode='eval'): tokenizer                                 *)
(***************************************************************************)
Tok(t, s) == [t |-> t, s |-> s]

TwoCharOps == {"**", "//", "==", "<=", ">=", "!=", "<<", ">>"}

OneCharOps == {"+", "-", "*", "/", "%", "(", ")", "[", "]", ",", ".", ":",
               "<", ">", "|", "&", "^", "~"}

IsDigit(c) == c \in CharsOf(DIGITS)

IsNameStart(c) == IsWordChar(c) /\ ~IsDigit(c)

\* the last position of the run of word characters that starts at i
WordRunEnd(text, i) ==
   Min({j \in i..Len(text) : j = Len(text) \/ ~IsWordChar(Chr(text, j + 1))})

\* the last position of the run of digits that starts at i
DigitRunEnd(text, i) ==
   Min({j \in i..Len(text) : j = Len(text) \/ ~IsDigit(Chr(text, j + 1))})

\* the end of the number literal starting at i: digits, optionally . digits
NumberEnd(text, i) ==
   LET e == DigitRunEnd(text, i)
   IN IF e + 2 <= Len(text) /\ Chr(text, e + 1) = "." /\ IsDigit(Chr(text, e + 2))
      THEN DigitRunEnd(text, e + 2)
      ELSE e

RECURSIVE Tokenize(_, _)
Tokenize(text, i) ==
   IF i > Len(text) THEN <<>>
   ELSE LET c == Chr(text, i) IN
        IF c = " " THEN Tokenize(text, i + 1)
        ELSE IF IsNameStart(c)
        THEN LET e == WordRunEnd(text, i)
             IN <<Tok("NAME", SubSeq(text, i, e))>> \o Tokenize(text, e + 1)
        ELSE IF IsDigit(c)
        THEN LET e == NumberEnd(text, i)
             IN IF e + 1 <= Len(text) /\ IsWordChar(Chr(text, e + 1))
                THEN <<Tok("ERRORTOKEN", SubSeq(text, i, e + 1))>>  \* invalid decimal literal
                ELSE <<Tok("NUMBER", SubSeq(text, i, e))>> \o Tokenize(text, e + 1)
        ELSE IF i + 1 <= Len(text) /\ SubSeq(text, i, i + 1) \in TwoCharOps
        THEN <<Tok("OP", SubSeq(text, i, i + 1))>> \o Tokenize(text, i + 2)
        ELSE IF c \in OneCharOps
        THEN <<Tok("OP", c)>> \o Tokenize(text, i + 1)
        ELSE <<Tok("ERRORTOKEN", c)>>   \* invalid character, unterminated string

RECURSIVE DigitsValue(_)
DigitsValue(s) ==
   IF s = "" THEN 0
   ELSE 10 * DigitsValue(SubSeq(s, 1, Len(s) - 1)) + (IndexIn(DIGITS, Chr(s, Len(s))) - 1)

RECURSIVE Pow10(_)
Pow10(k) == IF k = 0 THEN 1 ELSE 10 * Pow10(k - 1)

\* the value of a NUMBER token
NumberValue(s) ==
   IF contains(s, ".")
   THEN LET dot == CHOOSE i \in 1..Len(s) : Chr(s, i) = "."
        IN Rat(DigitsValue(SubSeq(s, 1, dot - 1)) * Pow10(Len(s) - dot)
                  + DigitsValue(SubSeq(s, dot + 1, Len(s))),
               Pow10(Len(s) - dot))
   ELSE Num(DigitsValue(s))

(***************************************************************************)
(* ast.parse(text, mode='eval'): the expression grammar of Python, from    *)
(* lambda and the conditional expression down to atoms and their trailers. *)
(* A node is a record with its class name in field k.                      *)
(***************************************************************************)
Constant(v) == [k |-> "Constant", value |-> v]

Name(id) == [k |-> "Name", id |-> id]

BinOp(op, l, r) == [k |-> "BinOp", op |-> op, left |-> l, right |-> r]

UnaryOp(op, operand) == [k |-> "UnaryOp", op |-> op, operand |-> operand]

BoolOp(op, values) == [k |-> "BoolOp", op |-> op, values |-> values]

Compare(l, ops, comparators) ==
   [k |-> "Compare", left |-> l, ops |-> ops, comparators |-> comparators]

IfExp(test, body, orelse) == [k |-> "IfExp", test |-> test, body |-> body, orelse |-> orelse]

Lambda(args, body) == [k |-> "Lambda", args |-> args, body |-> body]

Call(func, args) == [k |-> "Call", func |-> func, args |-> args]

Attribute(value, attr) == [k |-> "Attribute", value |-> value, attr |-> attr]

Subscript(value, slice) == [k |-> "Subscript", value |-> value, slice |-> slice]

List(elts) == [k |-> "List", elts |-> elts]

Tuple(elts) == [k |-> "Tuple", elts |-> elts]

Keywords ==
   {"and", "as", "assert", "async", "await", "break", "class", "continue", "def",
    "del", "elif", "else", "except", "finally", "for", "from", "global", "if",
    "import", "in", "is", "lambda", "nonlocal", "not", "or", "pass", "raise",
    "return", "try", "while", "with", "yield", "True", "False", "None"}

BinOpNames ==
   [op \in {"+", "-", "*", "/", "//", "%", "**", "|", "^", "&", "<<", ">>"} |->
      CASE op = "+" -> "Add" [] op = "-" -> "Sub" [] op = "*" -> "Mult"
        [] op = "/" -> "Div" [] op = "//" -> "FloorDiv" [] op = "%" -> "Mod"
        [] op = "**" -> "Pow" [] op = "|" -> "BitOr" [] op = "^" -> "BitXor"
        [] op = "&" -> "BitAnd" [] op = "<<" -> "LShift" [] op = ">>" -> "RShift"]

\* binary operators by precedence level, loosest first
LevelOps == << {"|"}, {"^"}, {"&"}, {"<<", ">>"}, {"+", "-"}, {"*", "/", "//", "%"} >>

CompareOps == {"<", ">", "==", "<=", ">=", "!="}

TokAt(toks, p) == IF p <= Len(toks) THEN toks[p] ELSE Tok("ENDMARKER", "")

IsOp(toks, p, s) == TokAt(toks, p) = Tok("OP", s)

IsKw(toks, p, s) == TokAt(toks, p) = Tok("NAME", s)

Parsed(node, pos) == [ok |-> TRUE, node |-> node, pos |-> pos]

SyntaxError == [ok |-> FALSE, node |-> [k |-> "SyntaxError"], pos |-> 0]

\* the result of the top rule, which must end at the end marker after the
\* n tokens
ExpressionBody(top, n) ==
   IF ~top.ok \/ top.pos # n + 2 THEN SyntaxError
   ELSE IF top.tuple THEN Parsed(Tuple(top.elts), top.pos)
   ELSE Parsed(top.elts[1], top.pos)

\* The grammar rules, one arm each.  Parse(rule, toks, p, arg) parses rule
\* from token p on; arg is the rule's parameter: the closing token of a
\* list, the keyword of a boolean operation, the precedence level of a
\* binary operation (with the left operand parsed so far), the node the
\* trailers apply to.
RECURSIVE Parse(_, _, _, _)
Parse(rule, toks, p, arg) ==
   CASE rule = "expression" ->
        \* lambda [NAME] ':' expression
        \* | disjunction ['if' disjunction 'else' expression]
        IF IsKw(toks, p, "lambda")
        THEN LET args == IF TokAt(toks, p + 1).t = "NAME"
                            /\ TokAt(toks, p + 1).s \notin Keywords
                         THEN <<TokAt(toks, p + 1).s>> ELSE <<>>
                 colon == p + 1 + Len(args)
                 body == Parse("expression", toks, colon + 1, <<>>)
             IN IF IsOp(toks, colon, ":") /\ body.ok
                THEN Parsed(Lambda(args, body.node), body.pos) ELSE SyntaxError
        ELSE LET body == Parse("boolop", toks, p, "or") IN
             IF body.ok /\ IsKw(toks, body.pos, "if")
             THEN LET test == Parse("boolop", toks, body.pos + 1, "or")
                      orelse == Parse("expression", toks, test.pos + 1, <<>>)
                  IN IF test.ok /\ IsKw(toks, test.pos, "else") /\ orelse.ok
                     THEN Parsed(IfExp(test.node, body.node, orelse.node), orelse.pos)
                     ELSE SyntaxError
             ELSE body
     [] rule = "exprlist" ->
        \* expression (',' expression)* [','] up to the token arg; elts are
        \* the expressions, tuple says whether a comma was seen, pos follows arg
        IF TokAt(toks, p) = arg
        THEN [ok |-> TRUE, elts |-> <<>>, tuple |-> FALSE, pos |-> p + 1]
        ELSE LET e == Parse("expression", toks, p, <<>>) IN
             IF ~e.ok THEN [ok |-> FALSE, elts |-> <<>>, tuple |-> FALSE, pos |-> 0]
             ELSE IF TokAt(toks, e.pos) = arg
             THEN [ok |-> TRUE, elts |-> <<e.node>>, tuple |-> FALSE, pos |-> e.pos + 1]
             ELSE IF IsOp(toks, e.pos, ",")
             THEN LET rest == Parse("exprlist", toks, e.pos + 1, arg)
                  IN [ok |-> rest.ok, elts |-> <<e.node>> \o rest.elts, tuple |-> TRUE,
                      pos |-> rest.pos]
             ELSE [ok |-> FALSE, elts |-> <<>>, tuple |-> FALSE, pos |-> 0]
     [] rule = "boolop" ->
        \* disjunction (arg = "or") and conjunction (arg = "and")
        LET first == IF arg = "or" THEN Parse("boolop", toks, p, "and")
                     ELSE Parse("inversion", toks, p, <<>>)
        IN IF first.ok /\ IsKw(toks, first.pos, arg)
           THEN LET rest == Parse("boolrest", toks, first.pos, arg)
                IN IF rest.ok
                   THEN Parsed(BoolOp(IF arg = "or" THEN "Or" ELSE "And",
                                      <<first.node>> \o rest.elts), rest.pos)
                   ELSE SyntaxError
           ELSE first
     [] rule = "boolrest" ->
        IF IsKw(toks, p, arg)
        THEN LET operand == IF arg = "or" THEN Parse("boolop", toks, p + 1, "and")
                            ELSE Parse("inversion", toks, p + 1, <<>>)
                 rest == Parse("boolrest", toks, operand.pos, arg)
             IN IF operand.ok /\ rest.ok
                THEN [ok |-> TRUE, elts |-> <<operand.node>> \o rest.elts, pos |-> rest.pos]
                ELSE [ok |-> FALSE, elts |-> <<>>, pos |-> 0]
        ELSE [ok |-> TRUE, elts |-> <<>>, pos |-> p]
     [] rule = "inversion" ->
        IF IsKw(toks, p, "not")
        THEN LET operand == Parse("inversion", toks, p + 1, <<>>)
             IN IF operand.ok THEN Parsed(UnaryOp("Not", operand.node), operand.pos)
                ELSE SyntaxError
        ELSE Parse("comparison", toks, p, <<>>)
     [] rule = "comparison" ->
        LET l == Parse("binop", toks, p, [level |-> 1]) IN
        IF l.ok /\ TokAt(toks, l.pos).t = "OP" /\ TokAt(toks, l.pos).s \in CompareOps
        THEN LET rest == Parse("comparerest", toks, l.pos, <<>>)
             IN IF rest.ok THEN Parsed(Compare(l.node, rest.ops, rest.elts), rest.pos)
                ELSE SyntaxError
        ELSE l
     [] rule = "comparerest" ->
        IF TokAt(toks, p).t = "OP" /\ TokAt(toks, p).s \in CompareOps
        THEN LET operand == Parse("binop", toks, p + 1, [level |-> 1])
                 rest == Parse("comparerest", toks, operand.pos, <<>>)
             IN IF operand.ok /\ rest.ok
                THEN [ok |-> TRUE, ops |-> <<TokAt(toks, p).s>> \o rest.ops,
                      elts |-> <<operand.node>> \o rest.elts, pos |-> rest.pos]
                ELSE [ok |-> FALSE, ops |-> <<>>, elts |-> <<>>, pos |-> 0]
        ELSE [ok |-> TRUE, ops |-> <<>>, elts |-> <<>>, pos |-> p]
     [] rule = "binop" ->
        \* the left-associative binary operators of one precedence level
        IF arg.level > Len(LevelOps) THEN Parse("factor", toks, p, <<>>)
        ELSE LET l == Parse("binop", toks, p, [level |-> arg.level + 1])
             IN IF l.ok
                THEN Parse("binrest", toks, l.pos, [level |-> arg.level, left |-> l.node])
                ELSE SyntaxError
     [] rule = "binrest" ->
        IF TokAt(toks, p).t = "OP" /\ TokAt(toks, p).s \in LevelOps[arg.level]
        THEN LET r == Parse("binop", toks, p + 1, [level |-> arg.level + 1])
             IN IF r.ok
                THEN Parse("binrest", toks, r.pos,
                           [level |-> arg.level,
                            left |-> BinOp(BinOpNames[TokAt(toks, p).s], arg.left, r.node)])
                ELSE SyntaxError
        ELSE Parsed(arg.left, p)
     [] rule = "factor" ->
        IF TokAt(toks, p).t = "OP" /\ TokAt(toks, p).s \in {"+", "-", "~"}
        THEN LET operand == Parse("factor", toks, p + 1, <<>>)
                 op == CASE TokAt(toks, p).s = "+" -> "UAdd"
                         [] TokAt(toks, p).s = "-" -> "USub"
                         [] TokAt(toks, p).s = "~" -> "Invert"
             IN IF operand.ok THEN Parsed(UnaryOp(op, operand.node), operand.pos)
                ELSE SyntaxError
        ELSE Parse("power", toks, p, <<>>)
     [] rule = "power" ->
        LET atom == Parse("atom", toks, p, <<>>)
            base == IF atom.ok THEN Parse("trailers", toks, atom.pos, atom.node)
                    ELSE SyntaxError
        IN IF base.ok /\ IsOp(toks, base.pos, "**")
           THEN LET exponent == Parse("factor", toks, base.pos + 1, <<>>)
                IN IF exponent.ok
                   THEN Parsed(BinOp("Pow", base.node, exponent.node), exponent.pos)
                   ELSE SyntaxError
           ELSE base
     [] rule = "trailers" ->
        \* primary: atom followed by .NAME, (args) and [slice]
        IF IsOp(toks, p, ".")
        THEN IF TokAt(toks, p + 1).t = "NAME" /\ TokAt(toks, p + 1).s \notin Keywords
             THEN Parse("trailers", toks, p + 2, Attribute(arg, TokAt(toks, p + 1).s))
             ELSE SyntaxError
        ELSE IF IsOp(toks, p, "(")
        THEN LET args == Parse("exprlist", toks, p + 1, Tok("OP", ")"))
             IN IF args.ok THEN Parse("trailers", toks, args.pos, Call(arg, args.elts))
                ELSE SyntaxError
        ELSE IF IsOp(toks, p, "[")
        THEN LET slice == Parse("exprlist", toks, p + 1, Tok("OP", "]"))
             IN IF slice.ok /\ slice.elts # <<>>
                THEN Parse("trailers", toks, slice.pos,
                        Subscript(arg, IF slice.tuple THEN Tuple(slice.elts)
                                       ELSE slice.elts[1]))
                ELSE SyntaxError
        ELSE Parsed(arg, p)
     [] rule = "atom" ->
        LET tok == TokAt(toks, p) IN
        IF tok.t = "NAME"
        THEN IF tok.s = "True" THEN Parsed(Constant(Bool(TRUE)), p + 1)
             ELSE IF tok.s = "False" THEN Parsed(Constant(Bool(FALSE)), p + 1)
             ELSE IF tok.s = "None" THEN Parsed(Constant(None), p + 1)
             ELSE IF tok.s \in Keywords THEN SyntaxError
             ELSE Parsed(Name(tok.s), p + 1)
        ELSE IF tok.t = "NUMBER" THEN Parsed(Constant(NumberValue(tok.s)), p + 1)
        ELSE IF tok = Tok("OP", "(")
        THEN LET inner == Parse("exprlist", toks, p + 1, Tok("OP", ")"))
             IN IF ~inner.ok THEN SyntaxError
                ELSE IF inner.tuple \/ inner.elts = <<>>
                THEN Parsed(Tuple(inner.elts), inner.pos)
                ELSE Parsed(inner.elts[1], inner.pos)
        ELSE IF tok = Tok("OP", "[")
        THEN LET inner == Parse("exprlist", toks, p + 1, Tok("OP", "]"))
             IN IF inner.ok THEN Parsed(List(inner.elts), inner.pos) ELSE SyntaxError
        ELSE SyntaxError

\* the Expression body of a token sequence: one expression, or the tuple of
\* a comma-separated list, up to the end marker
ParseTokens(toks) ==
   IF toks = <<>> \/ \E i \in 1..Len(toks) : toks[i].t = "ERRORTOKEN" THEN SyntaxError
   ELSE ExpressionBody(Parse("exprlist", toks, 1, Tok("ENDMARKER", "")), Len(toks))

\* ast.parse(text, mode='eval'): the body of the Expression node, or SyntaxError
ast_parse(text) ==
   IF text = "" \/ Chr(text, 1) = " " THEN SyntaxError     \* IndentationError
   ELSE ParseTokens(Tokenize(text, 1))

(***************************************************************************)
(* formula_evaluator.py: parse_and_validate_formula                        *)
(***************************************************************************)
\* ast.iter_child_nodes, expression children only (operator and context
\* nodes are never of a class the validator or the evaluator looks for)
Children(node) ==
   CASE node.k = "BinOp" -> <<node.left, node.right>>
     [] node.k = "UnaryOp" -> <<node.operand>>
     [] node.k = "BoolOp" -> node.values
     [] node.k = "Compare" -> <<node.left>> \o node.comparators
     [] node.k = "IfExp" -> <<node.test, node.body, node.orelse>>
     [] node.k = "Lambda" -> <<node.body>>
     [] node.k = "Call" -> <<node.func>> \o node.args
     [] node.k = "Attribute" -> <<node.value>>
     [] node.k = "Subscript" -> <<node.value, node.slice>>
     [] node.k \in {"List", "Tuple"} -> node.elts
     [] OTHER -> <<>>

\* ast.walk: breadth first from the queue
RECURSIVE ast_walk(_)
ast_walk(queue) ==
   IF queue = <<>> THEN <<>>
   ELSE <<Head(queue)>> \o ast_walk(Tail(queue) \o Children(Head(queue)))

\* the same list of node classes with ast.Call left out of the isinstance test
UnsafeNodeKindsNoCall ==
   {"Lambda", "FunctionDef", "Import", "ImportFrom", "Attribute", "Subscript"}

\* the node classes the walk of parse_and_validate_formula returns on
UnsafeNodeKinds ==
   {"Call", "Lambda", "FunctionDef", "Import", "ImportFrom", "Attribute", "Subscript"}

UnsafeMessage(kind) ==
   IF kind \in {"Call", "Lambda", "FunctionDef"}
   THEN "Function calls are not allowed in formulas"
   ELSE IF kind \in {"Import", "ImportFrom"}
   THEN "Import statements are not allowed"
   ELSE "Attribute access and subscripts are not allowed"

NoTree == [k |-> "NoTree"]

Invalid(msg) == [is_valid |-> FALSE, error |-> msg, tree |-> NoTree]

\* the walk over the parsed tree
validate_tree(parsed) ==
   IF ~parsed.ok THEN Invalid("Syntax error")
   ELSE LET nodes == ast_walk(<<parsed.node>>)
            unsafe == {i \in 1..Len(nodes) : nodes[i].k \in UnsafeNodeKinds}
        IN IF unsafe # {} THEN Invalid(UnsafeMessage(nodes[Min(unsafe)].k))
           ELSE [is_valid |-> TRUE, error |-> "", tree |-> parsed.node]

parse_and_validate_formula(text) ==
   IF strip(text) = "" THEN Invalid("Formula cannot be empty")
   ELSE validate_tree(ast_parse(replace(replace(text, "×", "*"), "÷", "/")))

(***************************************************************************)
(* formula_evaluator.py: SAFE_OPERATORS and safe_eval_ast                  *)
(***************************************************************************)
SAFE_OPERATORS == {"Add", "Sub", "Mult", "Div", "Pow", "Mod", "FloorDiv", "USub", "UAdd"}

Value(v) == [ok |-> TRUE, value |-> v, exc |-> "", msg |-> ""]

Raise(exc, msg) == [ok |-> FALSE, value |-> None, exc |-> exc, msg |-> msg]

\* floor(n / d) for d > 0
FloorDivInt(n, d) == IF n >= 0 THEN n \div d ELSE -((-n + d - 1) \div d)

Floor(x) == FloorDivInt(x.n, x.d)

RatAdd(x, y) == Rat(x.n * y.d + y.n * x.d, x.d * y.d)

RatSub(x, y) == Rat(x.n * y.d - y.n * x.d, x.d * y.d)

RatMul(x, y) == Rat(x.n * y.n, x.d * y.d)

RatDiv(x, y) == Rat(x.n * y.d, x.d * y.n)

RatLess(x, y) == x.n * y.d < y.n * x.d

RECURSIVE RatPowNat(_, _)
RatPowNat(x, e) == IF e = 0 THEN Num(1) ELSE RatMul(x, RatPowNat(x, e - 1))

\* operator.pow on floats, for the integral exponents
float_pow(x, y) ==
   CASE y.d = 1 /\ y.n >= 0 -> Value(RatPowNat(x, y.n))
     [] y.d = 1 /\ y.n < 0 /\ x.n = 0 -> Raise("ZeroDivisionError", "0.0 cannot be raised to a negative power")
     [] y.d = 1 /\ y.n < 0 /\ x.n # 0 -> Value(RatDiv(Num(1), RatPowNat(x, -y.n)))

\* SAFE_OPERATORS[op_type](left, right) on floats
apply_binary(op, x, y) ==
   CASE op = "Add" -> Value(RatAdd(x, y))
     [] op = "Sub" -> Value(RatSub(x, y))
     [] op = "Mult" -> Value(RatMul(x, y))
     [] op = "Div" -> IF y.n = 0 THEN Raise("ZeroDivisionError", "float division by zero")
                      ELSE Value(RatDiv(x, y))
     [] op = "FloorDiv" -> IF y.n = 0 THEN Raise("ZeroDivisionError", "float floor division by zero")
                           ELSE Value(Num(Floor(RatDiv(x, y))))
     [] op = "Mod" -> IF y.n = 0 THEN Raise("ZeroDivisionError", "float modulo")
                      ELSE Value(RatSub(x, RatMul(y, Num(Floor(RatDiv(x, y))))))
     [] op = "Pow" -> float_pow(x, y)

\* float(value)
float(v) ==
   CASE v.t = "num" -> Value(v)
     [] v.t = "bool" -> Value(Num(IF v.b THEN 1 ELSE 0))
     [] v.t = "none" -> Raise("TypeError", "float() argument must be a string or a real number, not 'NoneType'")

RECURSIVE safe_eval_ast(_, _)
safe_eval_ast(node, variables) ==
   CASE node.k = "Constant" -> float(node.value)
     [] node.k = "Name" ->
          IF ~HasKey(variables, node.id)
          THEN Raise("FormulaEvaluationError", "Variable '" \o node.id \o "' not found in data")
          ELSE float(DictGet(variables, node.id))
     [] node.k = "BinOp" ->
          IF node.op \notin SAFE_OPERATORS
          THEN Raise("FormulaEvaluationError", "Unsupported operator: " \o node.op)
          ELSE LET l == safe_eval_ast(node.left, variables)
                   r == safe_eval_ast(node.right, variables)
               IN IF ~l.ok THEN l
                  ELSE IF ~r.ok THEN r
                  ELSE IF node.op = "Div" /\ r.value.n = 0
                  THEN Raise("FormulaEvaluationError", "Division by zero")
                  ELSE apply_binary(node.op, l.value, r.value)
     [] node.k = "UnaryOp" ->
          IF node.op \notin SAFE_OPERATORS
          THEN Raise("FormulaEvaluationError", "Unsupported unary operator: " \o node.op)
          ELSE LET operand == safe_eval_ast(node.operand, variables)
               IN IF ~operand.ok THEN operand
                  ELSE IF node.op = "USub" THEN Value(RatSub(Num(0), operand.value))
                  ELSE operand
     [] OTHER -> Raise("FormulaEvaluationError", "Unsupported AST node type: " \o node.k)

(***************************************************************************)
(* formula_evaluator.py: evaluate_formula                                  *)
(***************************************************************************)
Failure(msg) == [success |-> FALSE, result |-> None, error |-> msg]

\* the except clauses of evaluate_formula
ErrorMessage(raised) ==
   CASE raised.exc = "FormulaEvaluationError" -> raised.msg
     [] raised.exc = "ZeroDivisionError" -> "Division by zero"
     [] raised.exc \in {"ValueError", "TypeError"} -> "Calculation error: " \o raised.msg
     [] OTHER -> "Unexpected error: " \o raised.msg

\* the steps of evaluate_formula after validation
evaluate_validated(valid, clean_data) ==
   IF ~valid.is_valid THEN Failure(valid.error)
   ELSE LET result == safe_eval_ast(valid.tree, clean_data)
        IN IF ~result.ok THEN Failure(ErrorMessage(result))
           ELSE [success |-> TRUE, result |-> result.value, error |-> ""]

\* clean_data = {k.replace(' ', '_'): v for k, v in data.items()}
clean_keys_of(mapping) ==
   [i \in 1..Len(mapping) |-> <<replace(mapping[i][1], " ", "_"), mapping[i][2]>>]

evaluate_formula(text, mapping, normalize, order) ==
   evaluate_validated(
      parse_and_validate_formula(
         replace(replace(IF normalize
                         THEN normalize_formula_variables(text, clean_keys_of(mapping), order)
                         ELSE text,
                         "×", "*"), "÷", "/")),
      clean_keys_of(mapping))

(***************************************************************************)
(* Python values of the financial record: numbers, None, strings, dicts    *)
(* (a dict is a function from its keys), and the exception a statement     *)
(* raised.                                                                 *)
(***************************************************************************)
Str(x) == [t |-> "str", s |-> x]

PyDict(f) == [t |-> "dict", f |-> f]

EmptyDict == PyDict(<<>>)

Raised(exc) == [t |-> "raise", exc |-> exc]

IsRaised(v) == v.t = "raise"

\* d.get(k, default); None.get raises AttributeError
get(d, k, default) ==
   IF IsRaised(d) THEN d
   ELSE IF d.t # "dict" THEN Raised("AttributeError")
   ELSE IF k \in DOMAIN d.f THEN d.f[k]
   ELSE default

\* d.get(k1, {}).get(k2, {}) ... .get(kn)
RECURSIVE get_path(_, _)
get_path(d, path) ==
   IF Len(path) = 1 THEN get(d, path[1], None)
   ELSE get_path(get(d, path[1], EmptyDict), Tail(path))

\* `v is not None`
NotNone(v) == v.t # "none"

\* Python truthiness of a number, None, a string or a dict
Truthy(v) ==
   CASE v.t = "num" -> v.n # 0
     [] v.t = "none" -> FALSE
     [] v.t = "bool" -> v.b
     [] v.t = "str" -> v.s # ""
     [] v.t = "dict" -> DOMAIN v.f # {}

\* round(x, 2), half to even, on the exact value
Round2(x) ==
   LET n == x.n * 100
       q == FloorDivInt(n, x.d)
       rem == n - q * x.d
   IN IF 2 * rem < x.d THEN Rat(q, 100)
      ELSE IF 2 * rem > x.d THEN Rat(q + 1, 100)
      ELSE IF q % 2 = 0 THEN Rat(q, 100) ELSE Rat(q + 1, 100)

(***************************************************************************)
(* base_ratios_config.py: the 13 base ratios                               *)
(***************************************************************************)
BASE_FINANCIAL_RATIOS ==
   "current_ratio" :> [name |-> "Current Ratio", category |-> "liquidity",
      formula |-> "Current Assets / Current Liabilities",
      interpretation |-> "Measures ability to pay short-term obligations",
      ideal_range |-> [min |-> Rat(3, 2), max |-> Rat(3, 1), optimal |-> Rat(2, 1)],
      unit |-> "ratio", higher_is_better |-> TRUE, is_base |-> TRUE] @@
   "quick_ratio" :> [name |-> "Quick Ratio (Acid Test)", category |-> "liquidity",
      formula |-> "(Current Assets - Inventory) / Current Liabilities",
      interpretation |-> "Measures ability to pay short-term obligations without selling inventory",
      ideal_range |-> [min |-> Rat(1, 1), max |-> Rat(2, 1), optimal |-> Rat(3, 2)],
      unit |-> "ratio", higher_is_better |-> TRUE, is_base |-> TRUE] @@
   "gross_profit_margin" :> [name |-> "Gross Profit Margin", category |-> "profitability",
      formula |-> "((Revenue - Cost of Goods Sold) / Revenue) × 100",
      interpretation |-> "Percentage of revenue remaining after deducting cost of goods sold",
      ideal_range |-> [min |-> Rat(20, 1), max |-> Rat(50, 1), optimal |-> Rat(30, 1)],
      unit |-> "%", higher_is_better |-> TRUE, is_base |-> TRUE] @@
   "net_profit_margin" :> [name |-> "Net Profit Margin", category |-> "profitability",
      formula |-> "(Net Income / Revenue) × 100",
      interpretation |-> "Percentage of revenue that translates to profit",
      ideal_range |-> [min |-> Rat(5, 1), max |-> Rat(20, 1), optimal |-> Rat(10, 1)],
      unit |-> "%", higher_is_better |-> TRUE, is_base |-> TRUE] @@
   "return_on_equity" :> [name |-> "Return on Equity (ROE)", category |-> "profitability",
      formula |-> "(Net Income / Shareholders' Equity) × 100",
      interpretation |-> "How efficiently the company generates profit from shareholders' equity",
      ideal_range |-> [min |-> Rat(10, 1), max |-> Rat(25, 1), optimal |-> Rat(15, 1)],
      unit |-> "%", higher_is_better |-> TRUE, is_base |-> TRUE] @@
   "return_on_assets" :> [name |-> "Return on Assets (ROA)", category |-> "profitability",
      formula |-> "(Net Income / Total Assets) × 100",
      interpretation |-> "How efficiently the company uses its assets to generate profit",
      ideal_range |-> [min |-> Rat(5, 1), max |-> Rat(20, 1), optimal |-> Rat(10, 1)],
      unit |-> "%", higher_is_better |-> TRUE, is_base |-> TRUE] @@
   "debt_to_equity" :> [name |-> "Debt to Equity Ratio", category |-> "solvency",
      formula |-> "Total Liabilities / Shareholders' Equity",
      interpretation |-> "Indicates the relative proportion of debt and equity used to finance assets",
      ideal_range |-> [min |-> Rat(0, 1), max |-> Rat(3, 2), optimal |-> Rat(1, 2)],
      unit |-> "ratio", higher_is_better |-> FALSE, is_base |-> TRUE] @@
   "debt_ratio" :> [name |-> "Debt Ratio", category |-> "solvency",
      formula |-> "(Total Liabilities / Total Assets) × 100",
      interpretation |-> "Percentage of assets financed by debt",
      ideal_range |-> [min |-> Rat(0, 1), max |-> Rat(60, 1), optimal |-> Rat(40, 1)],
      unit |-> "%", higher_is_better |-> FALSE, is_base |-> TRUE] @@
   "interest_coverage" :> [name |-> "Interest Coverage Ratio", category |-> "solvency",
      formula |-> "EBIT / Interest Expense",
      interpretation |-> "Ability to pay interest on outstanding debt",
      ideal_range |-> [min |-> Rat(5, 2), max |-> Rat(10, 1), optimal |-> Rat(5, 1)],
      unit |-> "times", higher_is_better |-> TRUE, is_base |-> TRUE] @@
   "asset_turnover" :> [name |-> "Asset Turnover Ratio", category |-> "efficiency",
      formula |-> "Revenue / Total Assets",
      interpretation |-> "How efficiently assets are used to generate revenue",
      ideal_range |-> [min |-> Rat(1, 2), max |-> Rat(2, 1), optimal |-> Rat(1, 1)],
      unit |-> "times", higher_is_better |-> TRUE, is_base |-> TRUE] @@
   "fixed_asset_turnover" :> [name |-> "Fixed Asset Turnover", category |-> "efficiency",
      formula |-> "Revenue / Fixed Assets",
      interpretation |-> "How efficiently fixed assets generate revenue",
      ideal_range |-> [min |-> Rat(1, 1), max |-> Rat(5, 1), optimal |-> Rat(2, 1)],
      unit |-> "times", higher_is_better |-> TRUE, is_base |-> TRUE] @@
   "inventory_turnover" :> [name |-> "Inventory Turnover Ratio", category |-> "efficiency",
      formula |-> "Cost of Goods Sold / Average Inventory",
      interpretation |-> "How many times inventory is sold and replaced in a period",
      ideal_range |-> [min |-> Rat(4, 1), max |-> Rat(12, 1), optimal |-> Rat(6, 1)],
      unit |-> "times", higher_is_better |-> TRUE, is_base |-> TRUE] @@
   "debtors_turnover" :> [name |-> "Debtors Turnover Ratio", category |-> "efficiency",
      formula |-> "Revenue / Accounts Receivable",
      interpretation |-> "How quickly the company collects payments from customers",
      ideal_range |-> [min |-> Rat(6, 1), max |-> Rat(12, 1), optimal |-> Rat(8, 1)],
      unit |-> "times", higher_is_better |-> TRUE, is_base |-> TRUE]

BASE_RATIO_CATEGORIES == {"liquidity", "profitability", "solvency", "efficiency"}

(***************************************************************************)
(* financial_ratios_service.py: averaging                                  *)
(***************************************************************************)
calculate_average_of_either(current_value, previous_value) ==
   IF NotNone(current_value) /\ NotNone(previous_value)
   THEN RatDiv(RatAdd(current_value, previous_value), Num(2))
   ELSE IF NotNone(current_value) THEN current_value ELSE previous_value

calculate_average(current_value, previous_value) ==
   IF NotNone(current_value) /\ NotNone(previous_value)
   THEN RatDiv(RatAdd(current_value, previous_value), Num(2))
   ELSE current_value

\* the five averaged balance sheet keys and where each value lives in a year
AveragedPaths ==
   << <<"avg_total_assets", <<"totals", "total_assets">> >>,
      <<"avg_total_equity", <<"equity", "total">> >>,
      <<"avg_fixed_assets", <<"non_current_assets", "breakdown", "fixed_assets">> >>,
      <<"avg_inventories", <<"current_assets", "breakdown", "inventories">> >>,
      <<"avg_accounts_receivable", <<"current_assets", "breakdown", "accounts_receivable">> >> >>

\* an ordered dict of the five averages, or the exception a .get raised
_prepare_averaged_data(current, previous) ==
   LET cur(i) == get_path(current, AveragedPaths[i][2])
       prev(i) == get_path(previous, AveragedPaths[i][2])
   IN IF \E i \in 1..Len(AveragedPaths) : IsRaised(cur(i)) \/ IsRaised(prev(i))
      THEN Raised("AttributeError")
      ELSE [t |-> "odict",
            items |-> [i \in 1..Len(AveragedPaths) |->
                         <<AveragedPaths[i][1], calculate_average(cur(i), prev(i))>>]]

(***************************************************************************)
(* financial_ratios_service.py: the four base categories                   *)
(***************************************************************************)
NA == Str("N/A")

\* `x is not None and y is not None and y != 0`
Divisible(x, y) == NotNone(x) /\ NotNone(y) /\ y.n # 0

Computed(value, config, quality) ==
   [value |-> Round2(value), formula |-> Str(config.formula),
    interpretation |-> Str(config.interpretation), data_quality |-> quality]

Insufficient(config) ==
   [value |-> NA, formula |-> Str(config.formula),
    interpretation |-> Str("Insufficient data to calculate"), data_quality |-> "incomplete"]

WithUnit(result, config) == result @@ [unit |-> Str(config.unit)]

Percent(x, y) == RatMul(RatDiv(x, y), Num(100))

\* the missing_fields of the two liquidity ratios
LiquidityMissing(current_assets, current_liabilities) ==
   LET missing_fields ==
          (IF NotNone(current_assets) THEN <<>> ELSE <<"Current Assets">>)
          \o (IF NotNone(current_liabilities) THEN <<>> ELSE <<"Current Liabilities">>)
   IN IF missing_fields # <<>> THEN missing_fields ELSE <<"Complete data not available">>

\* `inventories if inventories is not None else 0`
inventory_value(inventories) == IF NotNone(inventories) THEN inventories ELSE Num(0)

quick_ratio_data_quality_complete(inventories) == "complete"

\* `'complete' if inventories is not None else 'estimated'`
quick_ratio_data_quality(inventories) ==
   IF NotNone(inventories) THEN "complete" ELSE "estimated"

calculate_liquidity_ratios(year, config) ==
   LET current_assets == get_path(year, <<"current_assets", "total">>)
       current_liabilities == get_path(year, <<"current_liabilities", "total">>)
       inventories == get_path(year, <<"current_assets", "breakdown", "inventories">>)
       missing == [missing_fields |-> LiquidityMissing(current_assets, current_liabilities)]
   IN IF IsRaised(current_assets) \/ IsRaised(current_liabilities) \/ IsRaised(inventories)
      THEN Raised("AttributeError")
      ELSE PyDict(
         [current_ratio |->
            IF Divisible(current_assets, current_liabilities)
            THEN Computed(RatDiv(current_assets, current_liabilities),
                          config["current_ratio"], "complete")
            ELSE Insufficient(config["current_ratio"]) @@ missing,
          quick_ratio |->
            IF Divisible(current_assets, current_liabilities)
            THEN LET quick_assets == RatSub(current_assets, inventory_value(inventories))
                 IN Computed(RatDiv(quick_assets, current_liabilities), config["quick_ratio"],
                             quick_ratio_data_quality(inventories))
                    @@ [note |-> IF NotNone(inventories) THEN None
                                 ELSE Str("Inventory assumed to be 0")]
            ELSE Insufficient(config["quick_ratio"]) @@ missing])

\* one percentage ratio of the profitability category
PercentRatio(x, y, config) ==
   WithUnit(IF Divisible(x, y) THEN Computed(Percent(x, y), config, "complete")
            ELSE Insufficient(config), config)

calculate_profitability_ratios(year, avg_data, config) ==
   LET income_stmt == get(year, "income_statement", EmptyDict)
       gross_profit == get(income_stmt, "gross_profit", None)
       revenue == get(income_stmt, "revenue", None)
       net_income == get(income_stmt, "net_income", None)
       avg_total_equity == DictGet(avg_data.items, "avg_total_equity")
       avg_total_assets == DictGet(avg_data.items, "avg_total_assets")
   IN IF IsRaised(gross_profit)
      THEN Raised("AttributeError")
      ELSE PyDict(
         [gross_profit_margin |-> PercentRatio(gross_profit, revenue, config["gross_profit_margin"]),
          net_profit_margin |-> PercentRatio(net_income, revenue, config["net_profit_margin"]),
          return_on_equity |-> PercentRatio(net_income, avg_total_equity, config["return_on_equity"]),
          return_on_assets |-> PercentRatio(net_income, avg_total_assets, config["return_on_assets"])])

numerator_ebit_alone(ebit, income_tax) == ebit

\* interest_coverage: numerator = ebit + income_tax
numerator(ebit, income_tax) == RatAdd(ebit, income_tax)

total_debt_current_only(current_liabilities, non_current_liabilities) ==
   current_liabilities

\* total_debt = current_liabilities + non_current_liabilities
total_debt(current_liabilities, non_current_liabilities) ==
   RatAdd(current_liabilities, non_current_liabilities)

calculate_solvency_ratios(year, avg_data, config) ==
   LET current_liabilities == get_path(year, <<"current_liabilities", "total">>)
       non_current_liabilities == get_path(year, <<"non_current_liabilities", "total">>)
       total_liabilities == get_path(year, <<"totals", "total_liabilities">>)
       total_equity == get_path(year, <<"equity", "total">>)
       total_assets == get_path(year, <<"totals", "total_assets">>)
       ebit == get_path(year, <<"income_statement", "ebit">>)
       interest_expense == get_path(year, <<"income_statement", "interest_expense">>)
       tax == get(get(year, "income_statement", EmptyDict), "income_tax_expense", Num(0))
       income_tax == IF Truthy(tax) THEN tax ELSE Num(0)
   IN IF \E v \in {current_liabilities, non_current_liabilities, total_liabilities,
                   total_equity, total_assets, ebit, interest_expense} : IsRaised(v)
      THEN Raised("AttributeError")
      ELSE PyDict(
         [debt_to_equity |->
            IF Divisible(total_liabilities, total_equity)
            THEN Computed(RatDiv(total_liabilities, total_equity),
                          config["debt_to_equity"], "complete")
            ELSE IF NotNone(current_liabilities) /\ NotNone(non_current_liabilities)
                    /\ NotNone(total_equity) /\ total_equity.n # 0
            THEN [Computed(RatDiv(total_debt(current_liabilities, non_current_liabilities),
                                  total_equity),
                           config["debt_to_equity"], "estimated")
                  EXCEPT !.formula =
                     Str("(Current Liabilities + Non-Current Liabilities) / Total Equity")]
            ELSE Insufficient(config["debt_to_equity"]),
          debt_ratio |-> PercentRatio(total_liabilities, total_assets, config["debt_ratio"]),
          interest_coverage |->
            IF Divisible(ebit, interest_expense)
            THEN Computed(RatDiv(numerator(ebit, income_tax), interest_expense),
                          config["interest_coverage"], "complete")
            ELSE Insufficient(config["interest_coverage"])])

\* one turnover ratio of the efficiency category
Turnover(x, y, config) ==
   IF Divisible(x, y) THEN Computed(RatDiv(x, y), config, "complete") ELSE Insufficient(config)

calculate_efficiency_ratios(year, avg_data, config) ==
   LET revenue == get_path(year, <<"income_statement", "revenue">>)
       cogs == get_path(year, <<"income_statement", "cost_of_goods_sold">>)
       avg(key) == DictGet(avg_data.items, key)
   IN IF IsRaised(revenue)
      THEN Raised("AttributeError")
      ELSE PyDict(
         [asset_turnover |-> Turnover(revenue, avg("avg_total_assets"), config["asset_turnover"]),
          fixed_asset_turnover |->
             Turnover(revenue, avg("avg_fixed_assets"), config["fixed_asset_turnover"]),
          inventory_turnover |->
             Turnover(revenue, avg("avg_inventories"), config["inventory_turnover"]),
          debtors_turnover |->
             Turnover(revenue, avg("avg_accounts_receivable"), config["debtors_turnover"])])

(***************************************************************************)
(* financial_ratios_service.py: _prepare_flattened_data                    *)
(***************************************************************************)
\* schemas.py: the fields of IncomeStatement and of Totals
IncomeStatement ==
   {"revenue", "cost_of_goods_sold", "gross_profit", "operating_expenses",
    "operating_income", "interest_expense", "interest_income", "other_income", "ebit",
    "ebitda", "income_tax_expense", "net_income"}

Totals == {"total_assets", "total_liabilities", "total_equity"}

\* the keys assigned after flattened.update(avg_data), in assignment order
FlattenedPaths ==
   << <<"current_assets", <<"current_assets", "total">> >>,
      <<"inventories", <<"current_assets", "breakdown", "inventories">> >>,
      <<"accounts_receivable", <<"current_assets", "breakdown", "accounts_receivable">> >>,
      <<"cash", <<"current_assets", "breakdown", "cash">> >>,
      <<"non_current_assets", <<"non_current_assets", "total">> >>,
      <<"fixed_assets", <<"non_current_assets", "breakdown", "fixed_assets">> >>,
      <<"current_liabilities", <<"current_liabilities", "total">> >>,
      <<"non_current_liabilities", <<"non_current_liabilities", "total">> >>,
      <<"total_assets", <<"totals", "total_assets">> >>,
      <<"total_liabilities", <<"totals", "total_liabilities">> >>,
      <<"total_equity", <<"equity", "total">> >>,
      <<"share_capital", <<"equity", "breakdown", "share_capital">> >>,
      <<"retained_earnings", <<"equity", "breakdown", "retained_earnings">> >>,
      <<"revenue", <<"income_statement", "revenue">> >>,
      <<"cost_of_goods_sold", <<"income_statement", "cost_of_goods_sold">> >>,
      <<"gross_profit", <<"income_statement", "gross_profit">> >>,
      <<"operating_expenses", <<"income_statement", "operating_expenses">> >>,
      <<"operating_income", <<"income_statement", "operating_income">> >>,
      <<"ebit", <<"income_statement", "ebit">> >>,
      <<"interest_expense", <<"income_statement", "interest_expense">> >>,
      <<"income_tax_expense", <<"income_statement", "income_tax_expense">> >>,
      <<"net_income", <<"income_statement", "net_income">> >> >>

\* the ordered dict handed to evaluate_formula, or the exception a .get raised
_prepare_flattened_data(current_year, avg_data) ==
   LET flattened == avg_data.items \o
          [i \in 1..Len(FlattenedPaths) |->
             <<FlattenedPaths[i][1], get_path(current_year, FlattenedPaths[i][2])>>]
   IN IF \E i \in 1..Len(flattened) : IsRaised(flattened[i][2])
      THEN Raised("AttributeError")
      ELSE [t |-> "odict", items |-> SelectSeq(flattened, LAMBDA kv : NotNone(kv[2]))]

(***************************************************************************)
(* ratios_manager.py: get_merged_ratios_config                             *)
(***************************************************************************)
\* the custom definitions the loop marks: dev_mode and a truthy "key"
Marked(custom_ratio, mode) ==
   mode /\ Truthy(get(custom_ratio, "key", None))

\* custom_ratio["is_base"] = False; custom_ratio["is_custom"] = True
Mark(custom_ratio) ==
   PyDict([k \in DOMAIN custom_ratio.f \cup {"is_base", "is_custom"} |->
             IF k = "is_base" THEN Bool(FALSE)
             ELSE IF k = "is_custom" THEN Bool(TRUE)
             ELSE custom_ratio.f[k]])

\* the custom definition dicts after the call
MarkedRatios(customs, mode) ==
   [i \in 1..Len(customs) |-> IF Marked(customs[i], mode) THEN Mark(customs[i]) ELSE customs[i]]

\* line 180: merged is a new dict, BASE_FINANCIAL_RATIOS.copy(), so that
\* the registry still has its own entries when merged[ratio_key] was
\* written; were merged the registry itself, the registry would have the
\* entries of merged
registry_written_through(base, merged) == merged

registry_after_merge(base, merged) == base

\* merged = BASE_FINANCIAL_RATIOS.copy(), then merged[key] = custom_ratio in
\* list order; the registry itself is only read
get_merged_ratios_config(customs, mode, base) ==
   LET marked == MarkedRatios(customs, mode)
       keyed == {i \in 1..Len(customs) : Marked(customs[i], mode)}
       last(key) == Max({i \in keyed : customs[i].f["key"].s = key})
   IN [key \in DOMAIN base \cup {customs[i].f["key"].s : i \in keyed} |->
          IF \E i \in keyed : customs[i].f["key"].s = key THEN marked[last(key)]
          ELSE base[key]]

(***************************************************************************)
(* ratios_manager.py: validate_formula_syntax and validate_custom_ratio    *)
(***************************************************************************)
\* a validation result (is_valid, error_message)
Accepted == [is_valid |-> TRUE, error |-> None]

Rejected(msg) == [is_valid |-> FALSE, error |-> Str(msg)]

\* s.replace('**', ''): occurrences are removed from left to right
RECURSIVE without_power(_)
without_power(s) ==
   IF Len(s) < 2 THEN s
   ELSE IF SubSeq(s, 1, 2) = "**" THEN without_power(SubSeq(s, 3, Len(s)))
   ELSE Chr(s, 1) \o without_power(SubSeq(s, 2, Len(s)))

\* re.search(r'[+\-*/]{2,}', s).group(): the leftmost run of two or more
\* operator characters, "" when there is none
consecutive_ops(s) ==
   LET op(i) == i >= 1 /\ i <= Len(s) /\ Chr(s, i) \in {"+", "-", "*", "/"}
       starts == {i \in 1..Len(s) : op(i) /\ op(i + 1)}
   IN IF starts = {} THEN ""
      ELSE SubSeq(s, Min(starts), Min({j \in Min(starts)..Len(s) : ~op(j + 1)}))

validate_formula_syntax(text) ==
   IF text = "" \/ strip(text) = "" THEN Rejected("Formula cannot be empty")
   ELSE IF Cardinality({i \in 1..Len(text) : Chr(text, i) = "("})
              # Cardinality({i \in 1..Len(text) : Chr(text, i) = ")"})
   THEN Rejected("Unbalanced parentheses in formula")
   ELSE IF contains(text, "()") THEN Rejected("Empty parentheses found in formula")
   ELSE IF consecutive_ops(without_power(text)) # ""
   THEN Rejected("Consecutive operators found: " \o consecutive_ops(without_power(text)))
   ELSE IF Chr(strip(text), 1) \in {"+", "-", "*", "/"}
           \/ Chr(strip(text), Len(strip(text))) \in {"+", "-", "*", "/"}
   THEN Rejected("Formula cannot start or end with an operator")
   ELSE IF contains(replace(text, " ", ""), "/0")
   THEN Rejected("Division by zero detected in formula")
   ELSE Accepted

\* required_fields are checked in order, then the formula, the unit and the
\* category
validate_custom_ratio(ratio_config) ==
   LET required_fields == <<"name", "category", "formula", "unit">>
       valid_units == {"%", "ratio", "times", "days", "number"}
       missing == {i \in 1..Len(required_fields) :
                     \/ required_fields[i] \notin DOMAIN ratio_config.f
                     \/ ~Truthy(ratio_config.f[required_fields[i]])}
   IN IF missing # {} THEN Rejected("Missing required field: " \o required_fields[Min(missing)])
      ELSE IF ~validate_formula_syntax(ratio_config.f["formula"].s).is_valid
      THEN validate_formula_syntax(ratio_config.f["formula"].s)
      ELSE IF ratio_config.f["unit"].s \notin valid_units
      THEN Rejected("Invalid unit. Must be one of: %, ratio, times, days, number")
      ELSE IF ~Truthy(ratio_config.f["category"]) THEN Rejected("Category cannot be empty")
      ELSE Accepted

(***************************************************************************)
(* financial_ratios_service.py: calculate_all_ratios                       *)
(***************************************************************************)
\* evaluate_formula on custom_ratio['formula']: re raises TypeError on None,
\* which evaluate_formula reports as a calculation error
evaluate_custom(formula_value, flattened, order) ==
   IF formula_value.t = "str"
   THEN evaluate_formula(formula_value.s, flattened.items, TRUE, order)
   ELSE Failure("Calculation error: expected string or bytes-like object, got 'NoneType'")

\* the exception one pass of the loop body raises, "" when it raises none
custom_raises(custom_ratio) ==
   IF get(custom_ratio, "category", Str("custom")).t # "str" THEN "AttributeError"
   ELSE IF get(custom_ratio, "name", Str("")).t # "str" THEN "AttributeError"
   ELSE IF "formula" \notin DOMAIN custom_ratio.f THEN "KeyError"
   ELSE ""

custom_category(custom_ratio) == lower(get(custom_ratio, "category", Str("custom")).s)

custom_ratio_id(custom_ratio) ==
   get(custom_ratio, "id",
       Str(replace(lower(get(custom_ratio, "name", Str("")).s), " ", "_"))).s

value_in_unit_always_scaled(unit, value) ==
   IF unit = Str("%") THEN RatMul(value, Num(100)) ELSE value

\* `if ratio_result['unit'] == '%': value = value * 100 if value < 10 else value`
value_in_unit(unit, value) ==
   IF unit = Str("%") /\ RatLess(value, Num(10)) THEN RatMul(value, Num(100)) ELSE value

\* ratio_result of one custom definition, from the outcome of evaluate_formula
ratio_result_of(custom_ratio, outcome) ==
   LET unit == get(custom_ratio, "unit", Str("ratio"))
       ratio_result == [formula |-> custom_ratio.f["formula"],
                        interpretation |-> get(custom_ratio, "interpretation", Str("")),
                        unit |-> unit,
                        is_custom |-> TRUE]
   IN IF outcome.success
      THEN ratio_result @@
           [value |-> Round2(value_in_unit(unit, outcome.result)),
            data_quality |-> "complete"]
      ELSE ratio_result @@ [value |-> NA, data_quality |-> "error", error |-> outcome.error]

custom_result(custom_ratio, flattened, order) ==
   ratio_result_of(custom_ratio,
                   evaluate_custom(custom_ratio.f["formula"], flattened, order))

\* ratios[category][ratio_id] = ratio_result, creating the category when new
put_ratio(all, category, ratio_id, ratio_result) ==
   LET existing == IF category \in DOMAIN all THEN all[category] ELSE <<>>
       updated == [id \in DOMAIN existing \cup {ratio_id} |->
                     IF id = ratio_id THEN ratio_result ELSE existing[id]]
   IN [c \in DOMAIN all \cup {category} |-> IF c = category THEN updated ELSE all[c]]

Returned(all) == [raised |-> FALSE, exc |-> "", ratios |-> all]

Aborted(exc) == [raised |-> TRUE, exc |-> exc, ratios |-> <<>>]

\* the for loop over custom_ratios
RECURSIVE custom_loop(_, _, _, _)
custom_loop(all, todo, flattened, order) ==
   IF todo = <<>> THEN Returned(all)
   ELSE IF custom_raises(Head(todo)) # "" THEN Aborted(custom_raises(Head(todo)))
   ELSE custom_loop(put_ratio(all, custom_category(Head(todo)), custom_ratio_id(Head(todo)),
                              custom_result(Head(todo), flattened, order)),
                    Tail(todo), flattened, order)

\* the same test without dev_mode: `if custom_ratios:`
custom_ratios_enabled_any_mode(customs, mode) == customs # <<>>

\* if dev_mode and custom_ratios:
custom_ratios_enabled(customs, mode) == mode /\ customs # <<>>

calculate_all_ratios(d, customs, mode, config, order) ==
   LET current_year == get(d, "current_year", d)
       previous_year == get(d, "previous_year", EmptyDict)
       avg_data == _prepare_averaged_data(current_year, previous_year)
       liquidity == calculate_liquidity_ratios(current_year, config)
       profitability == calculate_profitability_ratios(current_year, avg_data, config)
       solvency == calculate_solvency_ratios(current_year, avg_data, config)
       efficiency == calculate_efficiency_ratios(current_year, avg_data, config)
       base == [liquidity |-> liquidity.f, profitability |-> profitability.f,
                solvency |-> solvency.f, efficiency |-> efficiency.f]
       flattened == _prepare_flattened_data(current_year, avg_data)
   IN IF IsRaised(avg_data) THEN Aborted(avg_data.exc)
      ELSE IF IsRaised(liquidity) THEN Aborted(liquidity.exc)
      ELSE IF IsRaised(profitability) THEN Aborted(profitability.exc)
      ELSE IF IsRaised(solvency) THEN Aborted(solvency.exc)
      ELSE IF IsRaised(efficiency) THEN Aborted(efficiency.exc)
      ELSE IF custom_ratios_enabled(customs, mode)
      THEN IF IsRaised(flattened) THEN Aborted(flattened.exc)
           ELSE custom_loop(base, customs, flattened, order)
      ELSE Returned(base)

\* the custom definition dicts after calculate_all_ratios: the call of
\* get_merged_ratios_config follows _prepare_averaged_data
customs_after(d, customs, mode) ==
   IF IsRaised(_prepare_averaged_data(get(d, "current_year", d),
                                      get(d, "previous_year", EmptyDict)))
   THEN customs
   ELSE MarkedRatios(customs, mode)

\* the formulas evaluate_formula is called with during calculate_all_ratios,
\* in call order: the loop reaches a definition when the base ratios and the
\* variable map were computed and no earlier definition raised
evaluated_formulas(d, customs, mode, config) ==
   IF ~custom_ratios_enabled(customs, mode) THEN <<>>
   ELSE IF calculate_all_ratios(d, <<>>, mode, config, 0).raised THEN <<>>
   ELSE IF IsRaised(_prepare_flattened_data(
                       get(d, "current_year", d),
                       _prepare_averaged_data(get(d, "current_year", d),
                                              get(d, "previous_year", EmptyDict))))
   THEN <<>>
   ELSE [i \in 1..Min({j \in 1..Len(customs) + 1 :
                          j = Len(customs) + 1 \/ custom_raises(customs[j]) # ""}) - 1 |->
           customs[i].f["formula"]]

(***************************************************************************)
(* financial_analysis.py: POST /recalculate                                *)
(***************************************************************************)
\* valid_custom_ratios: the definitions validate_custom_ratio accepts
valid_custom_ratios(customs) ==
   SelectSeq(customs, LAMBDA ratio : validate_custom_ratio(ratio).is_valid)

\* errors: one message per rejected definition, numbered from 1
errors_of(customs) ==
   LET message(i) == "Custom ratio " \o ToString(i) \o " validation failed: "
                        \o validate_custom_ratio(customs[i]).error.s
       rejected == {i \in 1..Len(customs) : ~validate_custom_ratio(customs[i]).is_valid}
       nth(k) == CHOOSE i \in rejected : Cardinality({j \in rejected : j < i}) = k - 1
   IN [k \in 1..Cardinality(rejected) |-> message(nth(k))]

\* the ratios of the response, or the HTTPException the handler raises: 400
\* for an empty extracted_data, 500 for any exception of the calculation
recalculate_ratios(extracted_data, customs, mode, order) ==
   IF ~Truthy(extracted_data) THEN Aborted("HTTPException 400")
   ELSE IF calculate_all_ratios(extracted_data, valid_custom_ratios(customs), mode,
                                BASE_FINANCIAL_RATIOS, order).raised
   THEN Aborted("HTTPException 500")
   ELSE calculate_all_ratios(extracted_data, valid_custom_ratios(customs), mode,
                             BASE_FINANCIAL_RATIOS, order)

(***************************************************************************)
(* Python objects by reference.  merge_financial_data writes into the      *)
(* dicts it is given and stores references to them, so its records live in *)
(* a heap: a sequence of dict and list objects, the address of an object   *)
(* being its index.  A slot of an object holds a number, None, a string or *)
(* the reference of another object.                                        *)
(***************************************************************************)
Ref(a) == [t |-> "ref", a |-> a]

PyList(items) == [t |-> "list", items |-> items]

\* isinstance(v, dict), isinstance(v, list)
isinstance(heap, v, class) == v.t = "ref" /\ heap[v.a].t = class

\* a sequence in two halves: a loop over it is the loop over the first
\* half followed by the loop over the second
FirstHalf(seq) == SubSeq(seq, 1, Len(seq) \div 2)

SecondHalf(seq) == SubSeq(seq, Len(seq) \div 2 + 1, Len(seq))

\* the keys of a dict, one after the other
RECURSIVE KeySeq(_)
KeySeq(keys) ==
   IF keys = {} THEN <<>>
   ELSE LET k == CHOOSE k \in keys : TRUE IN <<k>> \o KeySeq(keys \ {k})

\* dict(zip(keys, values))
RECURSIVE dict(_, _)
dict(keys, values) ==
   IF keys = <<>> THEN <<>>
   ELSE (Head(keys) :> Head(values)) @@ dict(Tail(keys), Tail(values))

\* the number of dicts and lists of a document
RECURSIVE count_objects(_), count_all(_)
count_objects(tree) ==
   IF tree.t = "dict"
      THEN 1 + count_all([i \in 1..Len(KeySeq(DOMAIN tree.f)) |-> tree.f[KeySeq(DOMAIN tree.f)[i]]])
   ELSE IF tree.t = "list" THEN 1 + count_all(tree.items)
   ELSE 0

count_all(trees) ==
   IF trees = <<>> THEN 0 ELSE count_objects(Head(trees)) + count_all(Tail(trees))

\* json.loads: every dict and list of the document becomes an object of
\* its own, the parts of a dict or list before the dict or list itself.
\* loaded(tree, n) is the value that stands for the document when its
\* objects are placed behind n objects, objects_of(tree, n) these objects.
loaded(tree, n) ==
   IF tree.t \in {"dict", "list"} THEN Ref(n + count_objects(tree)) ELSE tree

RECURSIVE objects_of(_, _), objects_of_all(_, _)
objects_of(tree, n) ==
   IF tree.t = "dict" THEN
      LET keys == KeySeq(DOMAIN tree.f)
          parts == [i \in 1..Len(keys) |-> tree.f[keys[i]]]
          behind(i) == n + count_all(SubSeq(parts, 1, i - 1))
      IN Append(objects_of_all(parts, n),
                PyDict(dict(keys, [i \in 1..Len(keys) |-> loaded(parts[i], behind(i))])))
   ELSE IF tree.t = "list" THEN
      LET behind(i) == n + count_all(SubSeq(tree.items, 1, i - 1))
      IN Append(objects_of_all(tree.items, n),
                PyList([i \in 1..Len(tree.items) |-> loaded(tree.items[i], behind(i))]))
   ELSE <<>>

objects_of_all(trees, n) ==
   IF trees = <<>> THEN <<>>
   ELSE objects_of(Head(trees), n)
        \o objects_of_all(Tail(trees), n + count_objects(Head(trees)))

loads(heap, tree) ==
   [heap |-> heap \o objects_of(tree, Len(heap)), value |-> loaded(tree, Len(heap))]

\* the document an object stands for: the value with every reference
\* followed
RECURSIVE dumps(_, _)
dumps(heap, v) ==
   IF v.t # "ref" THEN v
   ELSE IF heap[v.a].t = "dict"
      THEN PyDict([k \in DOMAIN heap[v.a].f |-> dumps(heap, heap[v.a].f[k])])
      ELSE PyList([i \in 1..Len(heap[v.a].items) |-> dumps(heap, heap[v.a].items[i])])

\* bool(v) of a value of the heap
truthy(heap, v) ==
   IF v.t # "ref" THEN Truthy(v)
   ELSE IF heap[v.a].t = "dict" THEN DOMAIN heap[v.a].f # {}
   ELSE heap[v.a].items # <<>>

\* d[key] = value
setitem(heap, d, key, value) ==
   [heap EXCEPT ![d.a] = PyDict((key :> value) @@ heap[d.a].f)]

\* d.get(key, default) on a dict object
getitem(heap, d, key, default) ==
   IF key \in DOMAIN heap[d.a].f THEN heap[d.a].f[key] ELSE default

\* a == b
equal(heap, a, b) == dumps(heap, a) = dumps(heap, b)

(***************************************************************************)
(* Python floats where rounding decides the result: the confidences, which *)
(* merge_financial_data adds and divides.  A float is an IEEE 754 double:  *)
(* 53 mantissa bits m, the first of them 1, and the exponent e of the      *)
(* first bit, for the value m[1] * 2^e + m[2] * 2^(e-1) + ...; the bits of *)
(* 0.0 are all 0.  Confidences are never negative, so there is no sign.    *)
(***************************************************************************)
MantissaBits == 53

zeros(n) == [i \in 1..n |-> 0]

\* the binary digits of a natural number, none for 0
RECURSIVE binary(_)
binary(n) == IF n = 0 THEN <<>> ELSE Append(binary(n \div 2), n % 2)

\* 2^k % n
RECURSIVE pow2_mod(_, _)
pow2_mod(k, n) ==
   IF k = 0 THEN 1 % n
   ELSE IF k % 2 = 0 THEN (pow2_mod(k \div 2, n) * pow2_mod(k \div 2, n)) % n
   ELSE (2 * pow2_mod(k - 1, n)) % n

\* the number with the digits bits, % n
RECURSIVE bits_mod(_, _)
bits_mod(bits, n) ==
   IF bits = <<>> THEN 0
   ELSE IF Len(bits) = 1 THEN bits[1] % n
   ELSE (bits_mod(FirstHalf(bits), n) * pow2_mod(Len(SecondHalf(bits)), n)
         + bits_mod(SecondHalf(bits), n)) % n

\* long division of the number with the digits bits, followed by zeros, by
\* the natural number n: the first places digits of the quotient, places
\* being at least the number of bits, and whether digits other than 0
\* follow them.  A digit of the quotient comes from the remainder of the
\* digits before it.
long_division(bits, n, places) ==
   LET dividend == bits \o zeros(places - Len(bits))
       remainder(i) == bits_mod(SubSeq(dividend, 1, i), n)
   IN [digits |-> [i \in 1..places |-> (2 * remainder(i - 1) + dividend[i]) \div n],
       inexact |-> remainder(places) # 0]

\* the carry into digit i when the digits a and b, of one length, are added
carry(a, b, i) ==
   \E j \in (i + 1)..Len(a) :
      /\ a[j] = 1 /\ b[j] = 1
      /\ \A k \in (i + 1)..(j - 1) : a[k] + b[k] >= 1

\* a + b for digits of one length: one digit more
add_bits(a, b) ==
   [i \in 1..(Len(a) + 1) |->
      IF i = 1 THEN (IF carry(a, b, 0) THEN 1 ELSE 0)
      ELSE (a[i - 1] + b[i - 1] + (IF carry(a, b, i - 1) THEN 1 ELSE 0)) % 2]

\* the number of leading zeros of digits, all of them when there is no 1
leading_zeros(bits) ==
   IF \A i \in 1..Len(bits) : bits[i] = 0 THEN Len(bits)
   ELSE (CHOOSE i \in 1..Len(bits) : bits[i] = 1 /\ \A j \in 1..(i - 1) : bits[j] = 0) - 1

Float(e, m) == [t |-> "float", e |-> e, m |-> m]

\* round-half-to-even of the number with the digits bits, whose first digit
\* counts 2^e, followed by digits other than 0 when inexact
round_to_double(bits, e, inexact) ==
   LET z == leading_zeros(bits)
       digits == SubSeq(bits, z + 1, Len(bits)) \o zeros(MantissaBits + 1)
       kept == SubSeq(digits, 1, MantissaBits)
       half == digits[MantissaBits + 1] = 1
       more == inexact \/ \E i \in (MantissaBits + 2)..Len(digits) : digits[i] = 1
       up == add_bits(kept, zeros(MantissaBits - 1) \o <<1>>)
   IN IF z = Len(bits) THEN Float(0, zeros(MantissaBits))
      ELSE IF ~(half /\ (more \/ kept[MantissaBits] = 1)) THEN Float(e - z, kept)
      ELSE IF up[1] = 1 THEN Float(e - z + 1, SubSeq(up, 1, MantissaBits))
      ELSE Float(e - z, Tail(up))

\* the float of the literal n/d, like 0.8 for 8/10
double(n, d) ==
   LET q == long_division(binary(n), d, Len(binary(n)) + Len(binary(d)) + MantissaBits + 1)
   IN round_to_double(q.digits, Len(binary(n)) - 1, q.inexact)

is_zero(x) == \A i \in 1..Len(x.m) : x.m[i] = 0

\* x + y
float_add(x, y) ==
   IF is_zero(x) THEN y
   ELSE IF is_zero(y) THEN x
   ELSE LET high == IF x.e >= y.e THEN x ELSE y
            low == IF x.e >= y.e THEN y ELSE x
            shift == high.e - low.e
        IN round_to_double(add_bits(high.m \o zeros(shift), zeros(shift) \o low.m),
                           high.e + 1, FALSE)

\* x / n for an int n > 0
float_truediv(x, n) ==
   LET q == long_division(x.m, n, MantissaBits + Len(binary(n)) + 1)
   IN round_to_double(q.digits, x.e, q.inexact)

(***************************************************************************)
(* financial_analysis.py: merge_financial_data                             *)
(***************************************************************************)
\* max(a, b) of two numbers: b only when it is larger
max(a, b) == IF RatLess(a, b) THEN b ELSE a

\* lines 94-100: what base[key] holds after a value that is not a dict met
\* a slot that is there
prefer_non_null_keeps_base(old, value) == old

prefer_non_null(old, value) ==
   IF value.t = "none" THEN old
   ELSE IF old.t = "none" THEN value
   ELSE IF IsNum(value) /\ IsNum(old) THEN max(old, value)
   ELSE old

\* deep_merge(base, update) of two dict objects: the heap after it.  Each
\* key of update writes its own slot of base, so the order of the keys does
\* not matter.
RECURSIVE deep_merge(_, _, _), deep_merge_items(_, _, _, _)
deep_merge(heap, base, update) ==
   deep_merge_items(heap, base, update, KeySeq(DOMAIN heap[update.a].f))

deep_merge_items(heap, base, update, keys) ==
   IF keys = <<>> THEN heap
   ELSE IF Len(keys) > 1
      THEN deep_merge_items(deep_merge_items(heap, base, update, FirstHalf(keys)),
                            base, update, SecondHalf(keys))
   ELSE IF keys[1] \notin DOMAIN heap[base.a].f
      THEN setitem(heap, base, keys[1], heap[update.a].f[keys[1]])
   ELSE IF /\ isinstance(heap, heap[base.a].f[keys[1]], "dict")
           /\ isinstance(heap, heap[update.a].f[keys[1]], "dict")
      THEN deep_merge(heap, heap[base.a].f[keys[1]], heap[update.a].f[keys[1]])
   ELSE setitem(heap, base, keys[1],
                prefer_non_null(heap[base.a].f[keys[1]], heap[update.a].f[keys[1]]))

\* any(v for k, v in year.items() if k != 'year' and v)
has_actual_data(heap, year) ==
   \E k \in DOMAIN heap[year.a].f : k # "year" /\ truthy(heap, heap[year.a].f[k])

\* the tuple a call returns, and the call together with the heap it leaves
Return(financial_data, confidence) ==
   [t |-> "tuple", data |-> financial_data, confidence |-> confidence]

Outcome(heap, returned) == [heap |-> heap, returned |-> returned]

\* lines 70-76: the years of a record that has no all_years
years_of(heap, current, previous) ==
   (IF truthy(heap, current) THEN <<current>> ELSE <<>>)
   \o (IF truthy(heap, previous) /\ isinstance(heap, previous, "dict") /\ has_actual_data(heap, previous)
          THEN <<previous>> ELSE <<>>)

\* lines 65-78: a single source is returned as it is, with all_years set
single_source_as_given(heap, financial_data, confidence) ==
   Outcome(heap, Return(financial_data, confidence))

single_source(heap, financial_data, confidence) ==
   IF "all_years" \in DOMAIN heap[financial_data.a].f THEN Outcome(heap, Return(financial_data, confidence))
   ELSE Outcome(
           setitem(
              Append(heap, PyList(years_of(heap, getitem(heap, financial_data, "current_year", None),
                                           getitem(heap, financial_data, "previous_year", None)))),
              financial_data, "all_years", Ref(Len(heap) + 1)),
           Return(financial_data, confidence))

\* lines 106-115: the objects of one year of merged, placed behind n
\* objects; the year itself is the last of them
year_structure(n) ==
   << EmptyDict, PyDict([total |-> None, breakdown |-> Ref(n + 1)]),
      EmptyDict, PyDict([total |-> None, breakdown |-> Ref(n + 3)]),
      EmptyDict, PyDict([total |-> None, breakdown |-> Ref(n + 5)]),
      EmptyDict, PyDict([total |-> None, breakdown |-> Ref(n + 7)]),
      EmptyDict, PyDict([total |-> None, breakdown |-> Ref(n + 9)]),
      EmptyDict,
      PyDict([total_assets |-> None, total_liabilities |-> None, total_equity |-> None]),
      PyDict([
         year |-> None,
         current_assets |-> Ref(n + 2),
         non_current_assets |-> Ref(n + 4),
         current_liabilities |-> Ref(n + 6),
         non_current_liabilities |-> Ref(n + 8),
         equity |-> Ref(n + 10),
         income_statement |-> Ref(n + 11),
         totals |-> Ref(n + 12)]) >>

\* lines 80-86 and 104-118: the years of merged, its list all_years, merged
\* itself and the empty list all_years_from_sources, behind n objects
initial_objects(n) ==
   year_structure(n) \o year_structure(n + 13)
   \o << PyList(<<>>),
         PyDict([current_year |-> Ref(n + 13), previous_year |-> Ref(n + 26), all_years |-> Ref(n + 27)]),
         PyList(<<>>) >>

\* the locals of the loops: the heap, the exception raised ("" for none),
\* the list all_years_from_sources and the years appended to
\* merged['all_years']
Raising(S, exc) == [S EXCEPT !.raised = exc]

\* lines 120-131 for one source
merge_source(S, merged, financial_data) ==
   LET current == getitem(S.heap, financial_data, "current_year", financial_data)
       previous == getitem(S.heap, financial_data, "previous_year", None)
   IN IF ~isinstance(S.heap, current, "dict") THEN Raising(S, "AttributeError")
      ELSE LET h1 == deep_merge(S.heap, S.heap[merged.a].f.current_year, current)
               h2 == IF truthy(h1, previous) /\ isinstance(h1, previous, "dict")
                        THEN deep_merge(h1, h1[merged.a].f.previous_year, previous)
                        ELSE h1
           IN [S EXCEPT
                 !.heap = h2,
                 !.all_years_from_sources =
                    IF /\ "all_years" \in DOMAIN h2[financial_data.a].f
                       /\ isinstance(h2, h2[financial_data.a].f.all_years, "list")
                       /\ Len(h2[S.all_years_from_sources.a].items) = 0
                    THEN h2[financial_data.a].f.all_years
                    ELSE S.all_years_from_sources]

\* lines 143-145: the years of one other source that have the year of
\* year_data
RECURSIVE merge_matching_years(_, _, _, _)
merge_matching_years(S, merged_year, year_data, other_years) ==
   IF other_years = <<>> \/ S.raised # "" THEN S
   ELSE merge_matching_years(
           IF ~isinstance(S.heap, Head(other_years), "dict") THEN Raising(S, "AttributeError")
           ELSE IF equal(S.heap, getitem(S.heap, Head(other_years), "year", None),
                                 getitem(S.heap, year_data, "year", None))
              THEN [S EXCEPT !.heap = deep_merge(S.heap, merged_year, Head(other_years))]
              ELSE S,
           merged_year, year_data, Tail(other_years))

\* lines 140-145 from the i-th source on
RECURSIVE merge_other_sources(_, _, _, _, _)
merge_other_sources(S, merged_year, year_data, data_list, i) ==
   IF i > Len(data_list) \/ S.raised # "" THEN S
   ELSE merge_other_sources(
           IF "all_years" \notin DOMAIN S.heap[data_list[i].data.a].f THEN S
           ELSE IF ~isinstance(S.heap, S.heap[data_list[i].data.a].f.all_years, "list")
              THEN Raising(S, "TypeError")
              ELSE merge_matching_years(S, merged_year, year_data,
                      S.heap[S.heap[data_list[i].data.a].f.all_years.a].items),
           merged_year, year_data, data_list, i + 1)

\* lines 138-146 for one year of all_years_from_sources; merged_year =
\* year_data.copy() is a new dict with the slots of year_data
merge_year(S, year_data, data_list) ==
   IF ~isinstance(S.heap, year_data, "dict") THEN Raising(S, "AttributeError")
   ELSE LET T == merge_other_sources(
                    [S EXCEPT !.heap = Append(S.heap, S.heap[year_data.a])],
                    Ref(Len(S.heap) + 1), year_data, data_list, 2)
        IN [T EXCEPT !.all_years = Append(T.all_years, Ref(Len(S.heap) + 1))]

\* lines 152-157: all_years from the merged years
fallback_years(heap, merged) ==
   (IF /\ truthy(heap, heap[merged.a].f.current_year)
       /\ truthy(heap, getitem(heap, heap[merged.a].f.current_year, "year", None))
       THEN <<heap[merged.a].f.current_year>> ELSE <<>>)
   \o (IF /\ truthy(heap, heap[merged.a].f.previous_year)
          /\ isinstance(heap, heap[merged.a].f.previous_year, "dict")
          /\ has_actual_data(heap, heap[merged.a].f.previous_year)
          THEN <<heap[merged.a].f.previous_year>> ELSE <<>>)

\* lines 134-157: the heap once merged['all_years'] is set
set_all_years(S, merged, data_list) ==
   IF truthy(S.heap, S.all_years_from_sources) /\ Len(data_list) > 1
      THEN setitem(Append(S.heap, PyList(S.all_years)), merged, "all_years", Ref(Len(S.heap) + 1))
   ELSE IF truthy(S.heap, S.all_years_from_sources)
      THEN setitem(S.heap, merged, "all_years", S.all_years_from_sources)
   ELSE setitem(Append(S.heap, PyList(fallback_years(S.heap, merged))),
                merged, "all_years", Ref(Len(S.heap) + 1))

\* sum(confidences): the floats are added from left to right, each sum
\* rounded
RECURSIVE sum(_)
sum(numbers) ==
   IF numbers = <<>> THEN double(0, 1)
   ELSE float_add(sum(SubSeq(numbers, 1, Len(numbers) - 1)), numbers[Len(numbers)])

\* sum(confidences) / len(confidences) if confidences else 0.0
avg_confidence(confidences) ==
   IF confidences # <<>> THEN float_truediv(sum(confidences), Len(confidences))
   ELSE double(0, 1)

\* lines 162-164: an empty previous year becomes {}
clean_up_previous_year(heap, merged) ==
   IF ~has_actual_data(heap, heap[merged.a].f.previous_year)
      THEN setitem(Append(heap, EmptyDict), merged, "previous_year", Ref(Len(heap) + 1))
      ELSE heap

(***************************************************************************)
(* Inputs of normalize_variable_name: every alias of the table and names   *)
(* outside it.                                                             *)
(***************************************************************************)
VariableNames ==
   MappingKeys \cup
   { "Total Assets", " total assets ", "Average Inventory", "average_inventory",
     "gross_profit", "Gross Profit", "operating_income", "cash", "s'tock",
     "working capital", "Shareholders' Equity", "avg_total_assets", "inventories",
     "Net Sales", "x", "" }

\* the same name in other letter cases
capitalize(s) == IF s = "" THEN "" ELSE upper(Chr(s, 1)) \o lower(SubSeq(s, 2, Len(s)))

Respellings(s) == {upper(s), lower(s), capitalize(s)}

(***************************************************************************)
(* Inputs of parse_and_validate_formula and evaluate_formula               *)
(***************************************************************************)
\* arithmetic formulas, each with the same formula written with the
\* canonical identifiers of the variables it names
ArithmeticFormulas ==
   << <<"Current Assets / Current Liabilities", "current_assets / current_liabilities">>,
      <<"CURRENT ASSETS / CURRENT LIABILITIES", "current_assets / current_liabilities">>,
      <<"Current assets / current Liabilities", "current_assets / current_liabilities">>,
      <<"current_assets / current_liabilities", "current_assets / current_liabilities">>,
      <<"(Current Assets - Inventories) / Current Liabilities",
        "(current_assets - inventories) / current_liabilities">>,
      <<"Current Assets * 2 - Current Liabilities", "current_assets * 2 - current_liabilities">>,
      <<"Gross Profit / Revenue", "gross_profit / revenue">>,
      <<"gross_profit / revenue", "gross_profit / revenue">>,
      <<"revenue - Net Income", "revenue - net_income">>,
      <<"revenue / gross_profit", "revenue / gross_profit">>,
      <<"Revenue % Gross Profit", "revenue % gross_profit">>,
      <<"Operating Income", "operating_income">>,
      <<"total_assets", "total_assets">>,
      <<"Total Assets", "total_assets">>,
      <<"Fixed Assets", "fixed_assets">>,
      <<"avg_total_assets", "avg_total_assets">>,
      <<"a", "a">>,
      <<"-a", "-a">>,
      <<"+a", "+a">>,
      <<"a - - b", "a - - b">>,
      <<"a ** 2", "a ** 2">>,
      <<"2 ** 3 ** 2", "2 ** 3 ** 2">>,
      <<"a // b", "a // b">>,
      <<"a % b", "a % b">>,
      <<"-a // b", "-a // b">>,
      <<"1.5 * b", "1.5 * b">>,
      <<"(a + b) * (a - b) / b", "(a + b) * (a - b) / b">>,
      <<"10 % 4 + 7 // 2", "10 % 4 + 7 // 2">>,
      <<"a / zero_value", "a / zero_value">>,
      <<"a // zero_value", "a // zero_value">>,
      <<"a % zero_value", "a % zero_value">>,
      <<"a / 0", "a / 0">>,
      <<"a / (b - 2)", "a / (b - 2)">>,
      <<"a + b / zero_value", "a + b / zero_value">>,
      <<"(a % zero_value) * 2", "(a % zero_value) * 2">>,
      <<"nonexistent / zero_value", "nonexistent / zero_value">>,
      <<"nonexistent + 1", "nonexistent + 1">>,
      <<"current_assets", "current_assets">>,
      <<"Current Assets", "current_assets">> >>

\* formulas with a construct outside arithmetic, and malformed ones
OtherFormulas ==
   { "max(a, b)", "a + max(a, b)", "abs(Total Assets)", "abs(total_assets)", "a.b", "Current Assets.real",
     "a[0]", "f(a).b + 1", "lambda: 1", "lambda x: x", "import os",
     "a < b", "a | b", "~a", "a if b else a", "a and b", "not a", "[a, b]", "(a, b)",
     "True", "", "   ", "a +", "a b", " a" }

Formulas == {ArithmeticFormulas[i][1] : i \in 1..Len(ArithmeticFormulas)} \cup OtherFormulas

\* the formula with its variables written as canonical identifiers
Canonical(text) ==
   ArithmeticFormulas[CHOOSE i \in 1..Len(ArithmeticFormulas) :
                         ArithmeticFormulas[i][1] = text][2]

DataMaps ==
   { << <<"current_assets", Num(500000)>>, <<"current_liabilities", Num(200000)>>,
        <<"inventories", Num(100000)>>, <<"total_assets", Num(1000000)>> >>,
     << <<"a", Num(5)>>, <<"b", Num(2)>>, <<"zero_value", Num(0)>> >>,
     << <<"gross_profit", Num(100)>>, <<"revenue", Num(1000)>>, <<"net_income", Num(50)>> >>,
     << <<"gross_profit", Num(100)>>, <<"revenue", Num(1000)>> >>,
     << <<"revenue", Num(1000)>>, <<"gross_profit", Num(0)>>, <<"net_income", Num(50)>> >>,
     << <<"avg_total_assets", Num(15)>>, <<"avg_fixed_assets", Num(6)>>,
        <<"total_assets", Num(10)>>, <<"fixed_assets", Num(4)>>,
        <<"operating_income", Num(5)>>, <<"ebit", Num(7)>> >>,
     << <<"a", None>>, <<"b", Num(2)>>, <<"current_assets", None>> >>,
     << >> }

\* iteration orders of the candidate set (see possible_vars)
HashOrders == {0, 1}

(***************************************************************************)
(* Inputs of calculate_all_ratios: financial records as the extraction     *)
(* step produces them (a group or a leaf it could not read is null) and    *)
(* custom ratio definitions as the client sends them.                      *)
(***************************************************************************)
YearFull ==
   PyDict([
      year |-> Str("2024"),
      current_assets |-> PyDict([
         total |-> Num(500),
         breakdown |-> PyDict([
            cash |-> Num(50),
            accounts_receivable |-> Num(150),
            inventories |-> Num(100)])]),
      non_current_assets |-> PyDict([total |-> Num(500), breakdown |-> PyDict([fixed_assets |-> Num(400)])]),
      current_liabilities |-> PyDict([total |-> Num(200), breakdown |-> EmptyDict]),
      non_current_liabilities |-> PyDict([total |-> Num(200), breakdown |-> EmptyDict]),
      equity |-> PyDict([
         total |-> Num(600),
         breakdown |-> PyDict([share_capital |-> Num(100), retained_earnings |-> Num(500)])]),
      income_statement |-> PyDict([
         revenue |-> Num(2000),
         cost_of_goods_sold |-> Num(1200),
         gross_profit |-> Num(800),
         operating_expenses |-> Num(600),
         operating_income |-> Num(200),
         ebit |-> Num(210),
         interest_expense |-> Num(20),
         income_tax_expense |-> Num(30),
         net_income |-> Num(150)]),
      totals |-> PyDict([
         total_assets |-> Num(1000),
         total_liabilities |-> Num(400),
         total_equity |-> Num(600)])])

YearNulls ==
   PyDict([
      year |-> Str("2024"),
      current_assets |-> PyDict([
         total |-> None,
         breakdown |-> PyDict([cash |-> None, accounts_receivable |-> None, inventories |-> None])]),
      non_current_assets |-> PyDict([total |-> None, breakdown |-> PyDict([fixed_assets |-> None])]),
      current_liabilities |-> PyDict([total |-> None, breakdown |-> EmptyDict]),
      non_current_liabilities |-> PyDict([total |-> None, breakdown |-> EmptyDict]),
      equity |-> PyDict([
         total |-> None,
         breakdown |-> PyDict([share_capital |-> None, retained_earnings |-> None])]),
      income_statement |-> PyDict([
         revenue |-> None,
         cost_of_goods_sold |-> None,
         gross_profit |-> None,
         operating_expenses |-> None,
         operating_income |-> None,
         ebit |-> None,
         interest_expense |-> None,
         income_tax_expense |-> None,
         net_income |-> None]),
      totals |-> PyDict([total_assets |-> None, total_liabilities |-> None, total_equity |-> None])])

YearPartial ==
   PyDict([
      year |-> Str("2024"),
      current_assets |-> PyDict([total |-> Num(500), breakdown |-> PyDict([inventories |-> None])]),
      current_liabilities |-> PyDict([total |-> Num(0)]),
      non_current_liabilities |-> PyDict([total |-> Num(300)]),
      equity |-> PyDict([total |-> Num(600)]),
      income_statement |-> PyDict([
         revenue |-> Num(2000),
         net_income |-> Num(-150),
         gross_profit |-> None,
         ebit |-> Num(210),
         interest_expense |-> Num(0)]),
      totals |-> PyDict([total_assets |-> Num(1000), total_liabilities |-> None])])

YearNullGroup ==
   PyDict([k \in DOMAIN YearFull.f |->
             IF k = "current_liabilities" THEN None ELSE YearFull.f[k]])

YearPrevious ==
   PyDict([
      year |-> Str("2023"),
      current_assets |-> PyDict([
         total |-> Num(400),
         breakdown |-> PyDict([accounts_receivable |-> Num(100), inventories |-> Num(80)])]),
      non_current_assets |-> PyDict([total |-> Num(400), breakdown |-> PyDict([fixed_assets |-> Num(300)])]),
      equity |-> PyDict([total |-> Num(500)]),
      totals |-> PyDict([
         total_assets |-> Num(800),
         total_liabilities |-> Num(300),
         total_equity |-> Num(500)])])

YearPreviousNulls ==
   PyDict([
      year |-> Str("2023"),
      current_assets |-> PyDict([
         total |-> None,
         breakdown |-> PyDict([accounts_receivable |-> None, inventories |-> None])]),
      non_current_assets |-> PyDict([total |-> None, breakdown |-> PyDict([fixed_assets |-> None])]),
      equity |-> PyDict([total |-> None]),
      totals |-> PyDict([total_assets |-> None, total_liabilities |-> None, total_equity |-> None])])

YearEstimates ==
   PyDict([
      year |-> Str("2024"),
      current_assets |-> PyDict([total |-> Num(500), breakdown |-> PyDict([cash |-> Num(50)])]),
      current_liabilities |-> PyDict([total |-> Num(200)]),
      non_current_liabilities |-> PyDict([total |-> Num(250)]),
      equity |-> PyDict([total |-> Num(600)]),
      income_statement |-> PyDict([revenue |-> Num(2000), ebit |-> Num(210), interest_expense |-> Num(20)]),
      totals |-> PyDict([total_assets |-> Num(1000)])])

YearNoComponent ==
   PyDict([
      year |-> Str("2024"),
      current_assets |-> PyDict([total |-> Num(500), breakdown |-> PyDict([inventories |-> Num(100)])]),
      current_liabilities |-> PyDict([total |-> Num(200)]),
      equity |-> PyDict([total |-> Num(600)]),
      income_statement |-> PyDict([
         revenue |-> Num(2000), ebit |-> Num(210), interest_expense |-> Num(20),
         income_tax_expense |-> None, interest_income |-> Num(5),
         other_income |-> Num(7), ebitda |-> Num(260), net_income |-> Num(150)]),
      totals |-> PyDict([total_assets |-> Num(1000), total_equity |-> Num(600)])])

YearTotalsOnly ==
   PyDict([
      year |-> Str("2024"),
      totals |-> PyDict([
         total_assets |-> Num(1000), total_liabilities |-> Num(400), total_equity |-> Num(600)])])

YearZeros ==
   PyDict([
      year |-> Str("2024"),
      current_assets |-> PyDict([
         total |-> Num(500),
         breakdown |-> PyDict([
            cash |-> Num(50), accounts_receivable |-> Num(0), inventories |-> Num(0)])]),
      non_current_assets |-> PyDict([total |-> Num(500), breakdown |-> PyDict([fixed_assets |-> Num(0)])]),
      current_liabilities |-> PyDict([total |-> Num(0)]),
      non_current_liabilities |-> PyDict([total |-> Num(200)]),
      equity |-> PyDict([total |-> Num(0)]),
      income_statement |-> PyDict([
         revenue |-> Num(0), gross_profit |-> Num(800), ebit |-> Num(210),
         interest_expense |-> Num(0), income_tax_expense |-> Num(30), net_income |-> Num(150)]),
      totals |-> PyDict([total_assets |-> Num(0), total_liabilities |-> Num(400), total_equity |-> Num(0)])])

RecordTwoYears == PyDict([current_year |-> YearFull, previous_year |-> YearPrevious])

RecordOneYear == PyDict([current_year |-> YearFull, previous_year |-> EmptyDict])

RecordNoPrevious == PyDict([current_year |-> YearFull])

RecordNullPrevious == PyDict([current_year |-> YearFull, previous_year |-> None])

RecordNulls == PyDict([current_year |-> YearNulls, previous_year |-> YearPreviousNulls])

RecordPartial == PyDict([current_year |-> YearPartial, previous_year |-> YearPrevious])

RecordFlat == YearFull

RecordEmpty == EmptyDict

RecordNullGroup == PyDict([current_year |-> YearNullGroup, previous_year |-> YearPrevious])

RecordPreviousOnly == PyDict([current_year |-> YearNulls, previous_year |-> YearPrevious])

RecordEstimates == PyDict([current_year |-> YearEstimates, previous_year |-> YearPrevious])

RecordNoComponent == PyDict([current_year |-> YearNoComponent])

RecordTotalsOnly == PyDict([current_year |-> YearTotalsOnly, previous_year |-> YearPrevious])

RecordZeros == PyDict([current_year |-> YearZeros])

Records ==
   {RecordTwoYears, RecordOneYear, RecordNoPrevious, RecordNullPrevious,
    RecordNulls, RecordPartial, RecordFlat, RecordEmpty, RecordNullGroup,
    RecordPreviousOnly, RecordEstimates, RecordNoComponent, RecordTotalsOnly,
    RecordZeros}

CustomWorkingCapital ==
   PyDict([
      id |-> Str("working_capital_ratio"),
      key |-> Str("working_capital_ratio"),
      name |-> Str("Working Capital Ratio"),
      category |-> Str("liquidity"),
      formula |-> Str("(Current Assets - Current Liabilities) / Total Assets"),
      interpretation |-> Str("Share of assets financed by working capital"),
      unit |-> Str("ratio")])

CustomTotalAssets ==
   PyDict([
      name |-> Str("Asset Base"),
      category |-> Str("custom"),
      formula |-> Str("total_assets"),
      unit |-> Str("number")])

CustomTotalAssetsSpaced ==
   PyDict([
      name |-> Str("Asset Base Spaced"),
      category |-> Str("custom"),
      formula |-> Str("Total Assets"),
      unit |-> Str("number")])

CustomAvgTotalAssets ==
   PyDict([
      name |-> Str("Average Asset Base"),
      category |-> Str("custom"),
      formula |-> Str("avg_total_assets"),
      unit |-> Str("number")])

CustomFixedAssets ==
   PyDict([
      name |-> Str("Fixed Asset Base"),
      category |-> Str("Custom"),
      formula |-> Str("Fixed Assets"),
      unit |-> Str("number")])

CustomTotalEquity ==
   PyDict([
      name |-> Str("Equity Base"),
      category |-> Str("custom"),
      formula |-> Str("total_equity"),
      unit |-> Str("number")])

CustomNetMargin ==
   PyDict([
      name |-> Str("Net Margin"),
      category |-> Str("profitability"),
      formula |-> Str("Net Income / Revenue"),
      unit |-> Str("%")])

CustomCashShare ==
   PyDict([
      name |-> Str("Cash Share"),
      formula |-> Str("cash / current_assets * 100"),
      unit |-> Str("%")])

CustomLiteralZero ==
   PyDict([
      name |-> Str("Literal Zero"),
      category |-> Str("custom"),
      formula |-> Str("Revenue / 0"),
      unit |-> Str("ratio")])

CustomUnsafe ==
   PyDict([
      name |-> Str("Unsafe Call"),
      category |-> Str("custom"),
      formula |-> Str("max(revenue, ebit)"),
      unit |-> Str("ratio")])

CustomNoFormula ==
   PyDict([
      name |-> Str("No Formula"),
      category |-> Str("custom"),
      unit |-> Str("ratio")])

CustomNullFormula ==
   PyDict([
      name |-> Str("Null Formula"),
      category |-> Str("custom"),
      formula |-> None,
      unit |-> Str("ratio")])

CustomNullCategory ==
   PyDict([
      name |-> Str("Null Category"),
      category |-> None,
      formula |-> Str("revenue"),
      unit |-> Str("ratio")])

CustomOverride ==
   PyDict([
      id |-> Str("current_ratio"),
      key |-> Str("current_ratio"),
      name |-> Str("Current Ratio"),
      category |-> Str("liquidity"),
      formula |-> Str("1"),
      unit |-> Str("ratio")])

\* custom definition lists: the slices of this catalogue, at most
\* MaxCustomRatios long
CustomBracketedZero ==
   PyDict([
      name |-> Str("Bracketed Zero"),
      category |-> Str("custom"),
      formula |-> Str("Revenue / (0)"),
      unit |-> Str("ratio")])

CustomRatioCatalogue ==
   << CustomWorkingCapital, CustomLiteralZero, CustomTotalAssets, CustomAvgTotalAssets,
      CustomTotalAssetsSpaced, CustomFixedAssets, CustomTotalEquity, CustomNetMargin,
      CustomNoFormula, CustomCashShare, CustomNullCategory, CustomUnsafe,
      CustomNullFormula, CustomOverride, CustomBracketedZero >>

MaxCustomRatios == 2

CustomRatioLists ==
   {SubSeq(CustomRatioCatalogue, p[1], p[1] + p[2] - 1) :
       p \in {q \in (1..Len(CustomRatioCatalogue)) \X (0..MaxCustomRatios) :
                 q[1] + q[2] - 1 <= Len(CustomRatioCatalogue)}}

(***************************************************************************)
(* Inputs of merge_financial_data: the years read from single pages, and   *)
(* the sources built from them.  A source is either the record of an       *)
(* extraction, whose current_year and previous_year are the first two      *)
(* objects of its all_years, or a document of its own objects.             *)
(***************************************************************************)
YearAssetsPage ==
   PyDict([year |-> Str("2024"), current_assets |-> PyDict([total |-> Num(500), breakdown |-> PyDict([cash |-> Num(50)])]), totals |-> PyDict([total_assets |-> Num(1000), total_liabilities |-> None])])

YearResultsPage ==
   PyDict([year |-> Str("2024"), current_assets |-> PyDict([total |-> Num(520), breakdown |-> PyDict([inventories |-> Num(100)])]), current_liabilities |-> PyDict([total |-> Num(200), breakdown |-> EmptyDict]), income_statement |-> PyDict([revenue |-> Num(2000), net_income |-> Num(150)]), totals |-> PyDict([total_assets |-> Num(900), total_liabilities |-> Num(400)])])

YearUndatedPage ==
   PyDict([year |-> None, current_liabilities |-> PyDict([total |-> Num(250), breakdown |-> EmptyDict]), income_statement |-> PyDict([revenue |-> Num(1900)])])

PreviousAssetsPage ==
   PyDict([year |-> Str("2023"), current_assets |-> PyDict([total |-> Num(400), breakdown |-> EmptyDict]), totals |-> PyDict([total_assets |-> Num(800)])])

PreviousEquityPage ==
   PyDict([year |-> Str("2023"), equity |-> PyDict([total |-> Num(500), breakdown |-> EmptyDict]), totals |-> PyDict([total_assets |-> Num(0)])])

YearAuditNotes ==
   PyDict([year |-> Str("2024"), notes |-> PyDict([auditor |-> Str("A")]), totals |-> PyDict([total_assets |-> Num(1000)])])

YearTaxNotes ==
   PyDict([year |-> Str("2024"), notes |-> PyDict([tax |-> Str("T")]), income_statement |-> None])

YearUndatedDraft ==
   PyDict([year |-> None, current_liabilities |-> PyDict([total |-> None, breakdown |-> EmptyDict]), income_statement |-> PyDict([revenue |-> Num(2100)])])

YearUndatedRevised ==
   PyDict([year |-> None, current_liabilities |-> PyDict([total |-> Num(300), breakdown |-> EmptyDict]), income_statement |-> PyDict([revenue |-> None])])

PreviousUndatedPage ==
   PyDict([year |-> None, equity |-> PyDict([total |-> Num(450), breakdown |-> PyDict([reserves |-> Num(0)])])])

PreviousUndatedDraft ==
   PyDict([year |-> None, equity |-> PyDict([total |-> None, breakdown |-> PyDict([reserves |-> Num(20)])])])

PreviousUndatedRevised ==
   PyDict([year |-> None, equity |-> PyDict([total |-> Num(-5), breakdown |-> PyDict([reserves |-> None])])])

SourceAssets ==
   [shape |-> "extraction", years |-> <<YearAssetsPage, PreviousAssetsPage>>, document |-> None, confidence |-> double(4, 5)]

SourceResults ==
   [shape |-> "extraction", years |-> <<YearResultsPage, PreviousEquityPage>>, document |-> None, confidence |-> double(7, 10)]

SourceUndated ==
   [shape |-> "extraction", years |-> <<YearUndatedPage>>, document |-> None, confidence |-> double(9, 10)]

SourceNoYears ==
   [shape |-> "extraction", years |-> <<>>, document |-> None, confidence |-> double(1, 2)]

SourceAuditNotes ==
   [shape |-> "extraction", years |-> <<YearAuditNotes>>, document |-> None, confidence |-> double(3, 5)]

SourceTaxNotes ==
   [shape |-> "extraction", years |-> <<YearTaxNotes>>, document |-> None, confidence |-> double(1, 1)]

DocumentTwoYears ==
   [shape |-> "document", years |-> <<>>, document |-> PyDict([current_year |-> YearAssetsPage, previous_year |-> PreviousAssetsPage]), confidence |-> double(9, 10)]

DocumentOneYear ==
   [shape |-> "document", years |-> <<>>, document |-> PyDict([current_year |-> YearResultsPage]), confidence |-> double(7, 10)]

DocumentNullYears ==
   [shape |-> "document", years |-> <<>>, document |-> PyDict([current_year |-> None, previous_year |-> None]), confidence |-> double(4, 5)]

DocumentNullPrevious ==
   [shape |-> "document", years |-> <<>>, document |-> PyDict([current_year |-> YearUndatedPage, previous_year |-> None]), confidence |-> double(3, 5)]

DocumentFlat ==
   [shape |-> "document", years |-> <<>>, document |-> YearAssetsPage, confidence |-> double(3, 4)]

DocumentEmpty ==
   [shape |-> "document", years |-> <<>>, document |-> EmptyDict, confidence |-> double(2, 5)]

SourceUndatedYears ==
   [shape |-> "extraction", years |-> <<YearUndatedPage, PreviousUndatedPage>>, document |-> None, confidence |-> double(9, 10)]

SourceUndatedDraft ==
   [shape |-> "extraction", years |-> <<YearUndatedDraft, PreviousUndatedDraft>>, document |-> None, confidence |-> double(4, 5)]

SourceUndatedRevised ==
   [shape |-> "extraction", years |-> <<YearUndatedRevised, PreviousUndatedRevised>>, document |-> None, confidence |-> double(7, 10)]

SourceCatalogue ==
   << SourceAssets, SourceResults, SourceUndated, SourceNoYears,
      SourceAuditNotes, SourceTaxNotes, DocumentTwoYears, DocumentOneYear,
      DocumentNullYears, DocumentNullPrevious, DocumentFlat, DocumentEmpty,
      SourceUndatedYears, SourceUndatedDraft, SourceUndatedRevised >>

\* the sources of one structure whose leaves are numbers or null
SameStructure == {SourceUndatedYears, SourceUndatedDraft, SourceUndatedRevised}

MaxSources == 3

\* one source, every two sources in both orders, every three consecutive
\* sources of the catalogue, and the sources of one structure in every
\* order
SourceLists ==
   {<<SourceCatalogue[i]>> : i \in 1..Len(SourceCatalogue)}
   \cup {<<SourceCatalogue[i], SourceCatalogue[j]>> : i, j \in 1..Len(SourceCatalogue)}
   \cup {SubSeq(SourceCatalogue, i, i + MaxSources - 1) : i \in 1..(Len(SourceCatalogue) - MaxSources + 1)}
   \cup {l \in [1..MaxSources -> SameStructure] : \A i, j \in 1..MaxSources : l[i] = l[j] => i = j}

\* gemini_service.py lines 103-111: the record of an extraction
extraction(heap, years) ==
   LET made == loads(Append(Append(heap, EmptyDict), EmptyDict), PyList(years))
       items == made.heap[made.value.a].items
   IN [heap |-> Append(made.heap, PyDict([
                   current_year |-> IF Len(items) > 0 THEN items[1] ELSE Ref(Len(heap) + 1),
                   previous_year |-> IF Len(items) > 1 THEN items[2] ELSE Ref(Len(heap) + 2),
                   all_years |-> made.value])),
       value |-> Ref(Len(made.heap) + 1)]

\* financial_analysis.py line 214: the financial_data read from one image,
\* and the heap that holds its objects
extract_financial_data_from_image(heap, image) ==
   IF image.shape = "extraction" THEN extraction(heap, image.years)
   ELSE loads(heap, image.document)

(***************************************************************************)
(* State machines.  Every specification runs over the same variables; the  *)
(* variables an operation does not touch keep their initial value.         *)
(***************************************************************************)
Pending == [t |-> "pending"]

NoInput == [t |-> "unused"]

\* the variables of the operations a specification does not run
NoMerge ==
   /\ images = <<>> /\ objects = <<>> /\ extraction_results = <<>>
   /\ locals = NoInput /\ merged_data = Pending

NoRegistry == registry = NoInput /\ calls = 0

NoStore == file = NoInput /\ writers = <<>>

NoEngine ==
   /\ variable = "" /\ normalized = <<>> /\ formula = "" /\ data = <<>>
   /\ normalize_vars = TRUE /\ set_order = 0
   /\ validation = Pending /\ evaluation = Pending

NoRatios ==
   /\ record = NoInput /\ custom_ratios = <<>> /\ dev_mode = FALSE /\ ratios = Pending

engine_vars == <<variable, normalized, formula, data, normalize_vars, set_order,
                 validation, evaluation>>

ratios_vars == <<record, custom_ratios, dev_mode, ratios>>

\* ---- normalize_variable_name -----------------------------------------
InitNorm ==
   /\ pc = "start"
   /\ variable \in VariableNames
   /\ normalized = <<>>
   /\ formula = "" /\ data = <<>> /\ normalize_vars = TRUE /\ set_order = 0
   /\ validation = Pending /\ evaluation = Pending
   /\ record = NoInput /\ custom_ratios = <<>> /\ dev_mode = FALSE /\ ratios = Pending
   /\ NoMerge /\ NoRegistry /\ NoStore

\* normalize_variable_name(variable)
Normalize ==
   /\ pc = "start"
   /\ normalized' = <<normalize_variable_name(variable)>>
   /\ pc' = "normalized"
   /\ UNCHANGED <<variable, formula, data, normalize_vars, set_order, validation,
                  evaluation, record, custom_ratios, dev_mode, ratios,
                  merge_vars, registry_vars, store_vars>>

\* normalize_variable_name on the result of the first call
NormalizeAgain ==
   /\ pc = "normalized"
   /\ normalized' = Append(normalized, normalize_variable_name(normalized[1]))
   /\ pc' = "renormalized"
   /\ UNCHANGED <<variable, formula, data, normalize_vars, set_order, validation,
                  evaluation, record, custom_ratios, dev_mode, ratios,
                  merge_vars, registry_vars, store_vars>>

\* normalize_variable_name on the same name in another letter case
NormalizeRespelled ==
   /\ pc = "normalized"
   /\ \E other \in Respellings(variable) :
         /\ variable' = other
         /\ normalized' = Append(normalized, normalize_variable_name(other))
   /\ pc' = "respelled"
   /\ UNCHANGED <<formula, data, normalize_vars, set_order, validation,
                  evaluation, record, custom_ratios, dev_mode, ratios,
                  merge_vars, registry_vars, store_vars>>

NextNorm == Normalize \/ NormalizeAgain \/ NormalizeRespelled

SpecNorm == InitNorm /\ [][NextNorm]_vars

\* ---- parse_and_validate_formula, evaluate_formula --------------------
InitEval ==
   /\ pc = "start"
   /\ formula \in Formulas
   /\ data \in DataMaps
   /\ normalize_vars \in BOOLEAN
   /\ set_order \in HashOrders
   /\ validation = Pending /\ evaluation = Pending
   /\ variable = "" /\ normalized = <<>>
   /\ record = NoInput /\ custom_ratios = <<>> /\ dev_mode = FALSE /\ ratios = Pending
   /\ NoMerge /\ NoRegistry /\ NoStore

\* is_valid, error, tree = parse_and_validate_formula(formula)
ParseAndValidate ==
   /\ pc = "start"
   /\ validation' = parse_and_validate_formula(formula)
   /\ pc' = "validated"
   /\ UNCHANGED <<variable, normalized, formula, data, normalize_vars, set_order,
                  evaluation, record, custom_ratios, dev_mode, ratios,
                  merge_vars, registry_vars, store_vars>>

\* success, result, error = evaluate_formula(formula, data, normalize_vars)
EvaluateFormula ==
   /\ pc \in {"start", "validated"}
   /\ evaluation' = evaluate_formula(formula, data, normalize_vars, set_order)
   /\ pc' = "evaluated"
   /\ UNCHANGED <<variable, normalized, formula, data, normalize_vars, set_order,
                  validation, record, custom_ratios, dev_mode, ratios,
                  merge_vars, registry_vars, store_vars>>

NextEval == ParseAndValidate \/ EvaluateFormula

SpecEval == InitEval /\ [][NextEval]_vars

\* ---- FinancialRatiosService.calculate_all_ratios ----------------------
Init ==
   /\ pc = "start"
   /\ record \in Records
   /\ custom_ratios \in CustomRatioLists
   /\ dev_mode \in BOOLEAN
   /\ set_order \in HashOrders
   /\ ratios = Pending
   /\ variable = "" /\ normalized = <<>> /\ formula = "" /\ data = <<>>
   /\ normalize_vars = TRUE /\ validation = Pending /\ evaluation = Pending
   /\ NoMerge /\ NoRegistry /\ NoStore

\* ratios = service.calculate_all_ratios(record, custom_ratios, dev_mode);
\* the call also marks the custom definition dicts it was handed
CalculateAllRatios ==
   /\ pc = "start"
   /\ ratios' = calculate_all_ratios(record, custom_ratios, dev_mode,
                                     BASE_FINANCIAL_RATIOS, set_order)
   /\ evaluation' = evaluated_formulas(record, custom_ratios, dev_mode,
                                       BASE_FINANCIAL_RATIOS)
   /\ custom_ratios' = customs_after(record, custom_ratios, dev_mode)
   /\ pc' = "done"
   /\ UNCHANGED <<variable, normalized, formula, data, normalize_vars, set_order,
                  validation, record, dev_mode,
                  merge_vars, registry_vars, store_vars>>

\* POST /recalculate with the record as extracted_data: the definitions
\* validate_custom_ratio rejects are reported in errors and left out of the
\* call of calculate_all_ratios; custom_ratios keeps the request's list, whose
\* accepted dicts the call marks.  The advisory warnings of the response are
\* read by no later step and are left out.
RecalculateRatios ==
   /\ pc = "start"
   /\ validation' = IF Truthy(record) THEN [errors |-> errors_of(custom_ratios)]
                    ELSE validation
   /\ ratios' = recalculate_ratios(record, custom_ratios, dev_mode, set_order)
   /\ evaluation' = IF Truthy(record)
                    THEN evaluated_formulas(record, valid_custom_ratios(custom_ratios),
                                            dev_mode, BASE_FINANCIAL_RATIOS)
                    ELSE <<>>
   /\ custom_ratios' =
         [i \in 1..Len(custom_ratios) |->
            IF Truthy(record) /\ validate_custom_ratio(custom_ratios[i]).is_valid
            THEN customs_after(record, <<custom_ratios[i]>>, dev_mode)[1]
            ELSE custom_ratios[i]]
   /\ pc' = "recalculated"
   /\ UNCHANGED <<variable, normalized, formula, data, normalize_vars, set_order,
                  record, dev_mode,
                  merge_vars, registry_vars, store_vars>>

Next == CalculateAllRatios \/ RecalculateRatios

Spec == Init /\ [][Next]_vars

(***************************************************************************)

\* ---- merge_financial_data ----------------------------------------------
InitMerge ==
   /\ pc = "start"
   /\ images \in SourceLists
   /\ objects = <<>> /\ extraction_results = <<>>
   /\ locals = NoInput /\ merged_data = Pending
   /\ NoEngine /\ NoRatios /\ NoRegistry /\ NoStore

\* the loops of merge_financial_data as its operators take them
loops ==
   [heap |-> objects, raised |-> "",
    all_years_from_sources |-> locals.all_years_from_sources,
    all_years |-> locals.all_years]

\* lines 212-215 of the route: one round of the loop over the images
ExtractFinancialData ==
   /\ pc = "start"
   /\ LET read == extract_financial_data_from_image(
                     objects, images[Len(extraction_results) + 1])
      IN /\ objects' = read.heap
         /\ extraction_results' =
               Append(extraction_results,
                      [data |-> read.value,
                       confidence |-> images[Len(extraction_results) + 1].confidence])
   /\ pc' = IF Len(extraction_results) + 1 < Len(images) THEN "start" ELSE "extracted"
   /\ UNCHANGED <<images, locals, merged_data, engine_vars, ratios_vars,
                  registry_vars, store_vars>>

\* lines 65-78: merge_financial_data of a single source
ReturnSingleSource ==
   /\ pc = "extracted"
   /\ Len(extraction_results) = 1
   /\ LET call == single_source(objects, extraction_results[1].data, extraction_results[1].confidence)
      IN objects' = call.heap /\ merged_data' = call.returned
   /\ pc' = "merged"
   /\ UNCHANGED <<images, extraction_results, locals, engine_vars, ratios_vars,
                  registry_vars, store_vars>>

\* lines 80-118: merged, confidences and all_years_from_sources
InitializeStructure ==
   /\ pc = "extracted"
   /\ Len(extraction_results) # 1
   /\ objects' = objects \o initial_objects(Len(objects))
   /\ locals' = [merged |-> Ref(Len(objects) + 28),
                 all_years_from_sources |-> Ref(Len(objects) + 29),
                 all_years |-> <<>>,
                 confidences |-> <<>>,
                 next |-> 1]
   /\ pc' = "sources"
   /\ UNCHANGED <<images, extraction_results, merged_data, engine_vars, ratios_vars,
                  registry_vars, store_vars>>

\* lines 119-131: one round of the loop over extraction_results; an exception
\* leaves the call
MergeSource ==
   /\ pc = "sources"
   /\ LET after == merge_source(loops, locals.merged, extraction_results[locals.next].data)
      IN /\ objects' = after.heap
         /\ locals' = [locals EXCEPT
               !.confidences = Append(@, extraction_results[locals.next].confidence),
               !.all_years_from_sources = after.all_years_from_sources,
               !.next = IF locals.next < Len(extraction_results) THEN @ + 1 ELSE 1]
         /\ merged_data' = IF after.raised # "" THEN Raised(after.raised) ELSE merged_data
         /\ pc' = IF after.raised # "" THEN "merged"
                  ELSE IF locals.next < Len(extraction_results) THEN "sources"
                  ELSE "years"
   /\ UNCHANGED <<images, extraction_results, engine_vars, ratios_vars,
                  registry_vars, store_vars>>

\* line 134: the years of the first source are merged one by one
merges_years ==
   truthy(objects, locals.all_years_from_sources) /\ Len(extraction_results) > 1

\* lines 137-146: one round of the loop over all_years_from_sources
MergeYear ==
   /\ pc = "years"
   /\ merges_years
   /\ locals.next <= Len(objects[locals.all_years_from_sources.a].items)
   /\ LET after == merge_year(loops, objects[locals.all_years_from_sources.a].items[locals.next],
                              extraction_results)
      IN /\ objects' = after.heap
         /\ locals' = [locals EXCEPT !.all_years = after.all_years, !.next = @ + 1]
         /\ merged_data' = IF after.raised # "" THEN Raised(after.raised) ELSE merged_data
         /\ pc' = IF after.raised # "" THEN "merged" ELSE "years"
   /\ UNCHANGED <<images, extraction_results, engine_vars, ratios_vars,
                  registry_vars, store_vars>>

\* lines 134-166: merged['all_years'], the average confidence, the clean-up
\* of previous_year and the return
ReturnMerged ==
   /\ pc = "years"
   /\ merges_years => locals.next > Len(objects[locals.all_years_from_sources.a].items)
   /\ objects' = clean_up_previous_year(set_all_years(loops, locals.merged, extraction_results),
                                     locals.merged)
   /\ merged_data' = Return(locals.merged, avg_confidence(locals.confidences))
   /\ pc' = "merged"
   /\ UNCHANGED <<images, extraction_results, locals, engine_vars, ratios_vars,
                  registry_vars, store_vars>>

NextMerge ==
   \/ ExtractFinancialData
   \/ ReturnSingleSource
   \/ InitializeStructure
   \/ MergeSource
   \/ MergeYear
   \/ ReturnMerged

SpecMerge == InitMerge /\ [][NextMerge]_vars

\* ---- the registry of base ratios under a sequence of calls --------------
MaxCalls == 3

\* the lists of custom definitions of the calls: none, one with a key of its
\* own, one with the key of a base ratio, one without a key, and both keys
\* in either order
RegistryCustomLists ==
   {<<>>, <<CustomWorkingCapital>>, <<CustomOverride>>, <<CustomTotalAssets>>,
    <<CustomWorkingCapital, CustomOverride>>, <<CustomOverride, CustomWorkingCapital>>}

\* a record of two years, and one on which calculate_all_ratios raises
\* before it reaches get_merged_ratios_config
RegistryRecords == {RecordTwoYears, RecordNullPrevious}

InitRegistry ==
   /\ pc = "start"
   /\ registry = BASE_FINANCIAL_RATIOS
   /\ calls = 0
   /\ NoEngine /\ NoRatios /\ NoMerge /\ NoStore

\* get_merged_ratios_config(custom_ratios, dev_mode); ratios holds the
\* merged map it returns
CallGetMergedRatiosConfig ==
   /\ calls < MaxCalls
   /\ \E customs \in RegistryCustomLists, mode \in BOOLEAN :
         /\ ratios' = get_merged_ratios_config(customs, mode, registry)
         /\ registry' = registry_after_merge(
                            registry, get_merged_ratios_config(customs, mode, registry))
         /\ custom_ratios' = MarkedRatios(customs, mode)
         /\ dev_mode' = mode
   /\ record' = NoInput
   /\ calls' = calls + 1
   /\ pc' = "merged config"
   /\ UNCHANGED <<engine_vars, merge_vars, store_vars>>

\* service.calculate_all_ratios(data, custom_ratios, dev_mode), which reads
\* the registry as FINANCIAL_RATIOS_CONFIG and calls get_merged_ratios_config
\* at line 34 unless _prepare_averaged_data raised
CallCalculateAllRatios ==
   /\ calls < MaxCalls
   /\ \E d \in RegistryRecords, customs \in RegistryCustomLists, mode \in BOOLEAN :
         /\ ratios' = calculate_all_ratios(d, customs, mode, registry, 0)
         /\ registry' =
               IF IsRaised(_prepare_averaged_data(get(d, "current_year", d),
                                                  get(d, "previous_year", EmptyDict)))
               THEN registry
               ELSE registry_after_merge(
                       registry, get_merged_ratios_config(customs, mode, registry))
         /\ custom_ratios' = customs_after(d, customs, mode)
         /\ record' = d
         /\ dev_mode' = mode
   /\ calls' = calls + 1
   /\ pc' = "ratios"
   /\ UNCHANGED <<engine_vars, merge_vars, store_vars>>

NextRegistry == CallGetMergedRatiosConfig \/ CallCalculateAllRatios

SpecRegistry == InitRegistry /\ [][NextRegistry]_vars

(***************************************************************************)
(* custom_ratios_storage.py: the file of a user's custom ratios.  The file *)
(* is its text: the value json.load reads from it, or that it is no JSON,  *)
(* and its length in characters (the ratios are ASCII and need no escape). *)
(***************************************************************************)
\* the file does not exist (file_path.exists() is False)
NoFile == [t |-> "missing"]

Text(value, length) == [t |-> "text", json |-> TRUE, value |-> value, length |-> length]

\* a text json.load raises JSONDecodeError on: an empty file, or a JSON
\* document followed by what is left of a longer one
NoJson(length) == [t |-> "text", json |-> FALSE, value |-> None, length |-> length]

\* the number of decimal digits of a count
RECURSIVE digits_length(_)
digits_length(n) == IF n < 10 THEN 1 ELSE 1 + digits_length(n \div 10)

RECURSIVE sum_lengths(_)
sum_lengths(lengths) ==
   IF lengths = <<>> THEN 0 ELSE Head(lengths) + sum_lengths(Tail(lengths))

\* the length of json.dumps(value, indent=2) for a value whose own line is
\* indented by `indent`: every item of a dict or list is on a line of its
\* own, two columns further in, the items are separated by commas, and the
\* closing bracket is on a line of its own
RECURSIVE json_length(_, _)
json_length(value, indent) ==
   LET bracketed(lengths) ==
          IF lengths = <<>> THEN Len("[]")
          ELSE Len("[") + sum_lengths(lengths) + (Len(lengths) - 1) * Len(",")
               + Len(lengths) * (1 + indent + Len("  "))
               + 1 + indent + Len("]")
   IN CASE value.t = "str" -> Len(value.s) + Len("''")
        [] value.t = "none" -> Len("null")
        [] value.t = "bool" -> IF value.b THEN Len("true") ELSE Len("false")
        [] value.t = "num" -> digits_length(value.n)
        [] value.t = "list" ->
              bracketed([i \in 1..Len(value.items) |->
                            json_length(value.items[i], indent + Len("  "))])
        [] value.t = "dict" ->
              LET keys == KeySeq(DOMAIN value.f)
              IN bracketed([i \in 1..Len(keys) |->
                               Len(keys[i]) + Len("'': ")
                               + json_length(value.f[keys[i]], indent + Len("  "))])

\* datetime.now().isoformat(): the text of a moment, of which the model
\* keeps the shape only
isoformat == "YYYY-MM-DDTHH:MM:SS.ffffff"

user_id == "default"

\* json.dump(data, f, indent=2, ensure_ascii=False): the text of data
json_dump(value) == Text(value, json_length(value, 0))

\* open(file_path, 'w'): the file is created or truncated
open_w(f) == NoJson(0)

\* the file after the text written at its start is flushed into it (the
\* text is shorter than the stream's buffer, so it is one write): a longer
\* text that another writer put there since this one's open keeps its end
write(f, text) ==
   IF f.t = "text" /\ f.length > text.length THEN NoJson(f.length) ELSE text

\* json.load(f)
json_load(f) == IF f.json THEN f.value ELSE Raised("JSONDecodeError")

\* what a function of the store returns: (success, error_message), or
\* (custom_ratios_list, error_message) from load_custom_ratios
Loaded(list, error) == [ratios |-> list, error |-> error]

Result(success, error) == [success |-> success, error |-> error]

\* load_custom_ratios(user_id)
load_custom_ratios(f) ==
   IF f = NoFile THEN Loaded(<<>>, None)
   ELSE IF IsRaised(json_load(f))
        THEN Loaded(None, Str("Invalid JSON in custom ratios file"))
        ELSE Loaded(get(json_load(f), "ratios", PyList(<<>>)).items, None)

\* the data save_custom_ratios builds at lines 58-65
store_data(list) ==
   PyDict([ratios |-> PyList(list),
           metadata |-> PyDict([user_id |-> Str(user_id),
                                last_updated |-> Str(isoformat),
                                count |-> Num(Len(list))])])

\* save_custom_ratios(custom_ratios, user_id) when no other writer runs
save_custom_ratios(f, list) ==
   write(open_w(f), json_dump(store_data(list)))

\* existing_ratios.append(ratio) of add_custom_ratio
appended_nothing(existing_ratios, ratio) == existing_ratios

appended(existing_ratios, ratio) == Append(existing_ratios, ratio)

\* ratio.get('id') == ratio_id or ratio.get('name') == ratio_id
is_ratio(ratio, ratio_id) ==
   get(ratio, "id", None) = Str(ratio_id) \/ get(ratio, "name", None) = Str(ratio_id)

\* the loop of update_custom_ratio: the first ratio of that id or name is
\* replaced, and the loop breaks
updated_every_match(existing_ratios, ratio_id, updated_ratio) ==
   [i \in 1..Len(existing_ratios) |->
       IF is_ratio(existing_ratios[i], ratio_id) THEN updated_ratio
       ELSE existing_ratios[i]]

found(existing_ratios, ratio_id) ==
   \E i \in 1..Len(existing_ratios) : is_ratio(existing_ratios[i], ratio_id)

updated(existing_ratios, ratio_id, updated_ratio) ==
   IF ~found(existing_ratios, ratio_id) THEN existing_ratios
   ELSE LET i == Min({j \in 1..Len(existing_ratios) :
                         is_ratio(existing_ratios[j], ratio_id)})
        IN [existing_ratios EXCEPT ![i] = updated_ratio]

\* the list comprehension of delete_custom_ratio
filtered_by_id(existing_ratios, ratio_id) ==
   SelectSeq(existing_ratios, LAMBDA r : get(r, "id", None) # Str(ratio_id))

filtered(existing_ratios, ratio_id) ==
   SelectSeq(existing_ratios, LAMBDA r : get(r, "id", None) # Str(ratio_id)
                                         /\ get(r, "name", None) # Str(ratio_id))

not_found(ratio_id) == Str("Ratio with ID '" \o ratio_id \o "' not found")

\* a call of the store up to its save: what it read, the list it is
\* about to save (custom_ratios), and what it returns when it does not get
\* to save
StoreCall(name, ratio_id, ratio, read, list, returned) ==
   [call |-> name, ratio_id |-> ratio_id, ratio |-> ratio,
    existing_ratios |-> read.ratios, custom_ratios |-> list,
    returned |-> returned,
    pc |-> IF returned = Pending THEN "save" ELSE "returned"]

\* add_custom_ratio(ratio, user_id) up to line 131
add_custom_ratio(f, ratio) ==
   LET read == load_custom_ratios(f)
   IN IF Truthy(read.error)
      THEN StoreCall("add", None, ratio, read, None, Result(FALSE, read.error))
      ELSE StoreCall("add", None, ratio, read, appended(read.ratios, ratio), Pending)

\* update_custom_ratio(ratio_id, updated_ratio, user_id) up to line 169
update_custom_ratio(f, ratio_id, updated_ratio) ==
   LET read == load_custom_ratios(f)
   IN IF Truthy(read.error)
      THEN StoreCall("update", ratio_id, updated_ratio, read, None,
                Result(FALSE, read.error))
      ELSE IF ~found(read.ratios, ratio_id)
      THEN StoreCall("update", ratio_id, updated_ratio, read, None,
                Result(FALSE, not_found(ratio_id)))
      ELSE StoreCall("update", ratio_id, updated_ratio, read,
                updated(read.ratios, ratio_id, updated_ratio), Pending)

\* delete_custom_ratio(ratio_id, user_id) up to line 205
delete_custom_ratio(f, ratio_id) ==
   LET read == load_custom_ratios(f)
   IN IF Truthy(read.error)
      THEN StoreCall("delete", ratio_id, None, read, None, Result(FALSE, read.error))
      ELSE IF Len(filtered(read.ratios, ratio_id)) = Len(read.ratios)
      THEN StoreCall("delete", ratio_id, None, read, None,
                Result(FALSE, not_found(ratio_id)))
      ELSE StoreCall("delete", ratio_id, None, read,
                filtered(read.ratios, ratio_id), Pending)

\* the call after save_custom_ratios returned (True, None)
saved(call) == [call EXCEPT !.returned = Result(TRUE, None), !.pc = "returned"]

\* ---- the ratios and the ids of the calls --------------------------------
\* a ratio with an id
StoredMargin ==
   PyDict([
      id |-> Str("margin"),
      name |-> Str("Net Margin"),
      category |-> Str("profitability"),
      formula |-> Str("Net Income / Revenue"),
      unit |-> Str("%")])

\* a ratio whose name is the id of the first
StoredLeverage ==
   PyDict([
      id |-> Str("leverage"),
      name |-> Str("margin"),
      category |-> Str("solvency"),
      formula |-> Str("Total Assets / Total Equity"),
      unit |-> Str("times")])

\* a ratio without an id that has the name of the first
StoredUnnamed ==
   PyDict([
      name |-> Str("Net Margin"),
      category |-> Str("custom"),
      formula |-> Str("Net Income / Total Assets"),
      unit |-> Str("ratio")])

StoredRatios == {StoredMargin, StoredLeverage, StoredUnnamed}

\* an id and a name two ratios have, an id one has, and one none has
RatioIds == {"margin", "Net Margin", "leverage", "turnover"}

MaxStored == 3

\* ---- the calls of one caller, one after the other -----------------------
Caller == {"caller"}

InitStore ==
   /\ pc = "start"
   /\ file = NoFile
   /\ writers = [w \in Caller |-> StoreCall("none", None, None, Loaded(<<>>, None), None,
                                       Result(TRUE, None))]
   /\ NoEngine /\ NoRatios /\ NoMerge /\ NoRegistry

\* the call run to its end, and the file it leaves: the file is left alone
\* when the call returned before its save
run(call) == IF call.pc = "save" THEN saved(call) ELSE call

file_after(f, call) ==
   IF call.pc = "save" THEN save_custom_ratios(f, call.custom_ratios) ELSE f

CallAddCustomRatio ==
   \E w \in Caller, ratio \in StoredRatios :
      /\ Len(load_custom_ratios(file).ratios) < MaxStored
      /\ writers' = [writers EXCEPT ![w] = run(add_custom_ratio(file, ratio))]
      /\ file' = file_after(file, add_custom_ratio(file, ratio))
      /\ pc' = "add"
      /\ UNCHANGED <<engine_vars, ratios_vars, merge_vars, registry_vars>>

CallUpdateCustomRatio ==
   \E w \in Caller, ratio_id \in RatioIds, ratio \in StoredRatios :
      /\ writers' = [writers EXCEPT
                        ![w] = run(update_custom_ratio(file, ratio_id, ratio))]
      /\ file' = file_after(file, update_custom_ratio(file, ratio_id, ratio))
      /\ pc' = "update"
      /\ UNCHANGED <<engine_vars, ratios_vars, merge_vars, registry_vars>>

CallDeleteCustomRatio ==
   \E w \in Caller, ratio_id \in RatioIds :
      /\ writers' = [writers EXCEPT ![w] = run(delete_custom_ratio(file, ratio_id))]
      /\ file' = file_after(file, delete_custom_ratio(file, ratio_id))
      /\ pc' = "delete"
      /\ UNCHANGED <<engine_vars, ratios_vars, merge_vars, registry_vars>>

NextStore == CallAddCustomRatio \/ CallUpdateCustomRatio \/ CallDeleteCustomRatio

SpecStore == InitStore /\ [][NextStore]_vars

\* ---- two writers of one user's file at the same time --------------------
Writers == {"first", "second"}

\* the lists a file can hold when the writers start
RECURSIVE StoredLists(_)
StoredLists(n) ==
   IF n = 0 THEN {<<>>}
   ELSE StoredLists(n - 1)
        \cup {Append(list, ratio) : list \in StoredLists(n - 1), ratio \in StoredRatios}

Idle == StoreCall("none", None, None, Loaded(<<>>, None), None, Pending)

InitWriters ==
   /\ pc = "start"
   /\ file \in {NoFile} \cup {save_custom_ratios(NoFile, list) :
                                list \in StoredLists(MaxStored - 1)}
   /\ writers = [w \in Writers |-> [Idle EXCEPT !.pc = "idle"]]
   /\ NoEngine /\ NoRatios /\ NoMerge /\ NoRegistry

\* a writer enters add_custom_ratio and runs to the open of its save, or to
\* its return when load_custom_ratios gave an error
BeginAddCustomRatio ==
   \E w \in Writers, ratio \in StoredRatios :
      /\ writers[w].pc = "idle"
      /\ writers' = [writers EXCEPT ![w] = add_custom_ratio(file, ratio)]
      /\ pc' = "add"
      /\ UNCHANGED <<file, engine_vars, ratios_vars, merge_vars, registry_vars>>

BeginUpdateCustomRatio ==
   \E w \in Writers, ratio_id \in RatioIds, ratio \in StoredRatios :
      /\ writers[w].pc = "idle"
      /\ writers' = [writers EXCEPT ![w] = update_custom_ratio(file, ratio_id, ratio)]
      /\ pc' = "update"
      /\ UNCHANGED <<file, engine_vars, ratios_vars, merge_vars, registry_vars>>

BeginDeleteCustomRatio ==
   \E w \in Writers, ratio_id \in RatioIds :
      /\ writers[w].pc = "idle"
      /\ writers' = [writers EXCEPT ![w] = delete_custom_ratio(file, ratio_id)]
      /\ pc' = "delete"
      /\ UNCHANGED <<file, engine_vars, ratios_vars, merge_vars, registry_vars>>

\* open(file_path, 'w') at line 68
OpenFile ==
   \E w \in Writers :
      /\ writers[w].pc = "save"
      /\ file' = open_w(file)
      /\ writers' = [writers EXCEPT ![w].pc = "dump"]
      /\ pc' = "open"
      /\ UNCHANGED <<engine_vars, ratios_vars, merge_vars, registry_vars>>

\* json.dump at line 69 and the close of the file, and the return of line 71
DumpFile ==
   \E w \in Writers :
      /\ writers[w].pc = "dump"
      /\ file' = write(file, json_dump(store_data(writers[w].custom_ratios)))
      /\ writers' = [writers EXCEPT ![w] = saved(writers[w])]
      /\ pc' = "dump"
      /\ UNCHANGED <<engine_vars, ratios_vars, merge_vars, registry_vars>>

NextWriters ==
   \/ BeginAddCustomRatio
   \/ BeginUpdateCustomRatio
   \/ BeginDeleteCustomRatio
   \/ OpenFile
   \/ DumpFile

SpecWriters == InitWriters /\ [][NextWriters]_vars

(***************************************************************************)
(* Properties of the formula evaluator, checked under SpecEval.            *)
(***************************************************************************)
\* the nodes of the parse tree of a text, none when it does not parse
TreeNodes(text) ==
   IF ast_parse(text).ok THEN ast_walk(<<ast_parse(text).node>>) ELSE <<>>

\* a function call, an attribute access, a subscript or a lambda in the tree
HasUnsafeNode(text) ==
   \E i \in 1..Len(TreeNodes(text)) :
      TreeNodes(text)[i].k \in {"Call", "Attribute", "Subscript", "Lambda"}

\* an import statement
IsImport(text) ==
   Tokenize(text, 1) # <<>> /\ Tokenize(text, 1)[1] \in {Tok("NAME", "import"), Tok("NAME", "from")}

HasUnsafeConstruct(text) == HasUnsafeNode(text) \/ IsImport(text)

\* C1: a formula with a function call, an attribute access, a subscript, a
\* lambda or an import is rejected by parse_and_validate_formula (is_valid
\* false, no tree) and evaluate_formula does not succeed on it, whatever
\* the variables.
C1_UnsafeConstructsRejected ==
   HasUnsafeConstruct(formula) =>
      /\ pc = "validated" => ~validation.is_valid /\ validation.tree = NoTree
      /\ pc = "evaluated" => ~evaluation.success /\ evaluation.result = None

\* a call inside an arithmetic formula over variables the data supplies,
\* validated and then evaluated
C1_Witness ==
   /\ pc = "evaluated"
   /\ formula = "a + max(a, b)"
   /\ HasKey(data, "a") /\ HasKey(data, "b") /\ IsNum(DictGet(data, "a"))
   /\ validation # Pending /\ ~validation.is_valid
   /\ ~evaluation.success

\* the node kinds of the expression grammar the specification allows
WhitelistedNode(node) ==
   \/ node.k = "Constant"
   \/ node.k = "Name"
   \/ node.k = "BinOp" /\ node.op \in {"Add", "Sub", "Mult", "Div", "Mod", "Pow", "FloorDiv"}
   \/ node.k = "UnaryOp" /\ node.op \in {"UAdd", "USub"}

\* C2: parse_and_validate_formula rejects every formula whose tree has a
\* node other than a literal, a variable, a binary operation with
\* + - * / % ** // or a unary + or -.
C2_ValidatorIsWhitelist ==
   pc = "validated"
      /\ (\E i \in 1..Len(TreeNodes(formula)) : ~WhitelistedNode(TreeNodes(formula)[i]))
   => ~validation.is_valid

Undefined == [t |-> "undefined"]

\* an arithmetic operator on two values, with Python's floor for // and %
ExactBinary(op, x, y) ==
   IF x = Undefined \/ y = Undefined THEN Undefined
   ELSE CASE op = "Add" -> RatAdd(x, y)
          [] op = "Sub" -> RatSub(x, y)
          [] op = "Mult" -> RatMul(x, y)
          [] op = "Div" -> IF y.n = 0 THEN Undefined ELSE RatDiv(x, y)
          [] op = "FloorDiv" -> IF y.n = 0 THEN Undefined ELSE Num(Floor(RatDiv(x, y)))
          [] op = "Mod" -> IF y.n = 0 THEN Undefined
                           ELSE RatSub(x, RatMul(y, Num(Floor(RatDiv(x, y)))))
          [] op = "Pow" -> IF y.d # 1 \/ (y.n < 0 /\ x.n = 0) THEN Undefined
                           ELSE IF y.n >= 0 THEN RatPowNat(x, y.n)
                           ELSE RatDiv(Num(1), RatPowNat(x, -y.n))

\* the value arithmetic gives an expression tree over a variable map:
\* Undefined when a name is absent or null, a divisor is zero or the node
\* is no arithmetic
RECURSIVE Exact(_, _)
Exact(node, env) ==
   CASE node.k = "Constant" -> IF IsNum(node.value) THEN node.value ELSE Undefined
     [] node.k = "Name" ->
          IF HasKey(env, node.id) /\ IsNum(DictGet(env, node.id))
          THEN DictGet(env, node.id) ELSE Undefined
     [] node.k = "UnaryOp" /\ node.op \in {"UAdd", "USub"} ->
          IF Exact(node.operand, env) = Undefined THEN Undefined
          ELSE IF node.op = "USub" THEN RatSub(Num(0), Exact(node.operand, env))
          ELSE Exact(node.operand, env)
     [] node.k = "BinOp" /\ node.op \in {"Add", "Sub", "Mult", "Div", "Mod", "Pow", "FloorDiv"} ->
          ExactBinary(node.op, Exact(node.left, env), Exact(node.right, env))
     [] OTHER -> Undefined

\* the formula as the arithmetic expression it writes down
WrittenTree == ast_parse(Canonical(formula)).node

\* the call reads the formula the way the specification describes: names
\* normalized, or written as identifiers already
ReadsNames == normalize_vars \/ formula = Canonical(formula)

IsArithmetic(text) == \E i \in 1..Len(ArithmeticFormulas) : ArithmeticFormulas[i][1] = text

\* C3: on an arithmetic formula, names written as identifiers or as
\* space-separated words in any letter case, and a variable map that gives
\* every referenced name a number with no zero divisor, evaluate_formula
\* succeeds with the mathematically correct value.
C3_ArithmeticIsCorrect ==
   pc = "evaluated" /\ normalize_vars /\ IsArithmetic(formula)
      /\ Exact(WrittenTree, data) # Undefined
   => evaluation.success /\ evaluation.result = Exact(WrittenTree, data)

\* the first failure an evaluation of the tree in operand order meets:
\* "zero" for a / // or % whose right operand is 0, "other" for any other
RECURSIVE Fault(_, _)
Fault(node, env) ==
   CASE node.k \in {"Constant", "Name"} ->
          IF Exact(node, env) = Undefined THEN "other" ELSE "none"
     [] node.k = "UnaryOp" -> Fault(node.operand, env)
     [] node.k = "BinOp" ->
          IF Fault(node.left, env) # "none" THEN Fault(node.left, env)
          ELSE IF Fault(node.right, env) # "none" THEN Fault(node.right, env)
          ELSE IF node.op \in {"Div", "FloorDiv", "Mod"} /\ Exact(node.right, env) = Num(0)
          THEN "zero"
          ELSE IF Exact(node, env) = Undefined THEN "other" ELSE "none"
     [] OTHER -> "other"

\* C4: when the right operand of a / // or % evaluates to exactly 0,
\* wherever the division sits, evaluate_formula fails with the division by
\* zero error and returns no number.
C4_DivisionByZeroFails ==
   pc = "evaluated" /\ IsArithmetic(formula) /\ ReadsNames
      /\ Fault(WrittenTree, data) = "zero"
   => ~evaluation.success /\ evaluation.error = "Division by zero"

\* data without its null-valued entries
WithoutNulls(mapping) == SelectSeq(mapping, LAMBDA kv : NotNone(kv[2]))

\* the names the written formula refers to whose entry in data is null
NullNames ==
   {TreeNodes(Canonical(formula))[i].id :
       i \in {j \in 1..Len(TreeNodes(Canonical(formula))) :
                 /\ TreeNodes(Canonical(formula))[j].k = "Name"
                 /\ HasKey(data, TreeNodes(Canonical(formula))[j].id)
                 /\ DictGet(data, TreeNodes(Canonical(formula))[j].id) = None}}

\* C5: evaluate_formula drops the null-valued entries of data before it
\* evaluates: the outcome is that of the same call without them, and a
\* formula that is one name whose entry is null fails with the unknown
\* variable error naming it.
C5_NullEntriesDropped ==
   pc = "evaluated" =>
      /\ evaluation = evaluate_formula(formula, WithoutNulls(data), normalize_vars, set_order)
      /\ IsArithmetic(formula) /\ ReadsNames /\ NullNames # {}
            /\ WrittenTree.k = "Name"
         => /\ ~evaluation.success
            /\ evaluation.error = "Variable '" \o WrittenTree.id \o "' not found in data"

(***************************************************************************)
(* Properties of normalize_variable_name, checked under SpecNorm.          *)
(***************************************************************************)
\* C6: normalize_variable_name is idempotent, and gives the same result for
\* two spellings of a name that differ only in letter case.
C6_NormalizeIdempotentCaseInsensitive ==
   /\ pc = "renormalized" => normalized[2] = normalized[1]
   /\ pc = "respelled" => normalized[2] = normalized[1]

(***************************************************************************)
(* Properties of calculate_all_ratios, checked under Spec.                 *)
(***************************************************************************)
\* the flattened variable map calculate_all_ratios builds for a record
FlattenedOf(rec) ==
   _prepare_flattened_data(
      get(rec, "current_year", rec),
      _prepare_averaged_data(get(rec, "current_year", rec),
                             get(rec, "previous_year", EmptyDict))).items

\* the flattened key a custom formula of one name refers to
AddressedKey ==
   [text \in {"total_assets", "Total Assets", "Fixed Assets", "total_equity",
              "avg_total_assets"} |->
      CASE text \in {"total_assets", "Total Assets"} -> "total_assets"
        [] text = "Fixed Assets" -> "fixed_assets"
        [] text = "total_equity" -> "total_equity"
        [] text = "avg_total_assets" -> "avg_total_assets"]

\* the averaged key of a point-in-time key, and the reverse
Counterpart(key) ==
   IF Len(key) > 4 /\ SubSeq(key, 1, 4) = "avg_" THEN SubSeq(key, 5, Len(key))
   ELSE "avg_" \o key

\* the custom definition is one name, and the record has a value for it and
\* a different one for its counterpart
AddressesOneOfTwo(custom_ratio, flattened) ==
   /\ "formula" \in DOMAIN custom_ratio.f
   /\ custom_ratio.f["formula"].t = "str"
   /\ custom_ratio.f["formula"].s \in DOMAIN AddressedKey
   /\ HasKey(flattened, AddressedKey[custom_ratio.f["formula"].s])
   /\ HasKey(flattened, Counterpart(AddressedKey[custom_ratio.f["formula"].s]))
   /\ DictGet(flattened, AddressedKey[custom_ratio.f["formula"].s])
         # DictGet(flattened, Counterpart(AddressedKey[custom_ratio.f["formula"].s]))

\* the entry calculate_all_ratios returned for a custom definition
EntryOf(custom_ratio) ==
   ratios.ratios[custom_category(custom_ratio)][custom_ratio_id(custom_ratio)]

\* C7: with dev_mode true a custom formula that names a point-in-time
\* variable gets the current-year value and one that names the avg_ key
\* gets the averaged value, on every record that has both and they differ.
C7_CustomFormulaAddressesEitherQuantity ==
   pc = "done" /\ dev_mode /\ ~ratios.raised =>
      \A i \in 1..Len(custom_ratios) :
         AddressesOneOfTwo(custom_ratios[i], FlattenedOf(record)) =>
            EntryOf(custom_ratios[i]).value =
               Round2(DictGet(FlattenedOf(record),
                              AddressedKey[custom_ratios[i].f["formula"].s]))

\* the fixed ratio keys of a category
FixedKeys(category) ==
   {key \in DOMAIN BASE_FINANCIAL_RATIOS : BASE_FINANCIAL_RATIOS[key].category = category}

\* the output holds the result of every fixed ratio under its fixed key
HasAllFixedRatios ==
   /\ ~ratios.raised
   /\ BASE_RATIO_CATEGORIES \subseteq DOMAIN ratios.ratios
   /\ \A category \in BASE_RATIO_CATEGORIES :
         \A key \in FixedKeys(category) :
            /\ key \in DOMAIN ratios.ratios[category]
            /\ "is_custom" \notin DOMAIN ratios.ratios[category][key]
            /\ {"value", "formula", "interpretation", "data_quality"}
                  \subseteq DOMAIN ratios.ratios[category][key]

\* C8: for every record, every list of custom definitions and either value
\* of dev_mode the output of calculate_all_ratios has the four categories
\* and, under them, the results of the 13 fixed ratios (2, 4, 3 and 4 keys)
\* under their fixed keys.
C8_FixedRatiosAlwaysPresent ==
   /\ Cardinality(FixedKeys("liquidity")) = 2
   /\ Cardinality(FixedKeys("profitability")) = 4
   /\ Cardinality(FixedKeys("solvency")) = 3
   /\ Cardinality(FixedKeys("efficiency")) = 4
   /\ pc = "done" => HasAllFixedRatios

\* the output for the record when no custom definition is passed
OutputWithoutCustoms ==
   calculate_all_ratios(record, <<>>, FALSE, BASE_FINANCIAL_RATIOS, set_order)

\* some entry of the output carries is_custom
SomeEntryIsCustom ==
   \E category \in DOMAIN ratios.ratios :
      \E key \in DOMAIN ratios.ratios[category] :
         "is_custom" \in DOMAIN ratios.ratios[category][key]

\* C9: with dev_mode false the output of calculate_all_ratios for a record
\* is the same whatever custom definitions are passed: no entry carries
\* is_custom and no category or key is added.
C9_CustomsInactiveOutsideDevMode ==
   pc = "done" /\ ~dev_mode =>
      /\ ratios = OutputWithoutCustoms
      /\ get_merged_ratios_config(custom_ratios, dev_mode, BASE_FINANCIAL_RATIOS)
            = BASE_FINANCIAL_RATIOS
      /\ ~ratios.raised =>
            /\ ~SomeEntryIsCustom
            /\ DOMAIN ratios.ratios = BASE_RATIO_CATEGORIES
            /\ \A category \in BASE_RATIO_CATEGORIES :
                  DOMAIN ratios.ratios[category] = FixedKeys(category)

\* custom definitions were passed with dev_mode false and the call returned
C9_Witness ==
   /\ pc = "done" /\ ~dev_mode
   /\ Len(custom_ratios) = MaxCustomRatios
   /\ custom_ratios[1] = CustomWorkingCapital
   /\ record = RecordTwoYears
   /\ ~ratios.raised

\* the formulas of the catalogue that cannot be evaluated on any record
NeverEvaluates(custom_ratio) ==
   \/ "formula" \notin DOMAIN custom_ratio.f
   \/ custom_ratio.f["formula"] \in {None, Str("Revenue / 0"), Str("max(revenue, ebit)")}

\* C10: with dev_mode true calculate_all_ratios returns normally with one
\* entry per custom definition in its declared category, marked is_custom;
\* a definition that fails validation or evaluation, one with a missing or
\* null formula or category included, gets value "N/A", data_quality
\* "error" and the error message, and the base ratios are computed all the
\* same.
C10_CustomFailuresAreContained ==
   pc = "done" /\ dev_mode /\ ~OutputWithoutCustoms.raised =>
      /\ ~ratios.raised
      /\ \A category \in BASE_RATIO_CATEGORIES :
            FixedKeys(category) \subseteq DOMAIN ratios.ratios[category]
      /\ \A i \in 1..Len(custom_ratios) :
            /\ custom_category(custom_ratios[i]) \in DOMAIN ratios.ratios
            /\ custom_ratio_id(custom_ratios[i])
                  \in DOMAIN ratios.ratios[custom_category(custom_ratios[i])]
            /\ EntryOf(custom_ratios[i]).is_custom
            /\ NeverEvaluates(custom_ratios[i]) =>
                  /\ EntryOf(custom_ratios[i]).value = NA
                  /\ EntryOf(custom_ratios[i]).data_quality = "error"
                  /\ "error" \in DOMAIN EntryOf(custom_ratios[i])

(***************************************************************************)
(* Properties of the fixed ratios, checked under Spec.                     *)
(***************************************************************************)
\* the year calculate_all_ratios takes as the current one
CurrentYearOf(rec) == get(rec, "current_year", rec)

\* the record has no value at the path of its current year: the leaf is
\* null or absent, or a group on the way to it is
Missing(rec, path) ==
   \/ IsRaised(get_path(CurrentYearOf(rec), path))
   \/ get_path(CurrentYearOf(rec), path) = None

\* the entry of the output under a category and a key
Entry(category, key) == ratios.ratios[category][key]

\* the elements of a list
Elements(list) == {list[i] : i \in 1..Len(list)}

\* C11: for every record whose current_liabilities.total is missing (null
\* or absent) calculate_all_ratios still returns current_ratio, with value
\* "N/A", data_quality "incomplete" and "Current Liabilities" among its
\* missing_fields.  Checked where no custom definition is active.
C11_MissingLiabilitiesReported ==
   pc = "done" /\ ~dev_mode /\ Missing(record, <<"current_liabilities", "total">>) =>
      /\ ~ratios.raised
      /\ Entry("liquidity", "current_ratio").value = NA
      /\ Entry("liquidity", "current_ratio").data_quality = "incomplete"
      /\ "Current Liabilities" \in Elements(Entry("liquidity", "current_ratio").missing_fields)

\* the human-readable labels a missing_fields list names inputs by
InputLabels ==
   {"Current Assets", "Current Liabilities", "Non-Current Liabilities", "Inventories",
    "Total Assets", "Total Liabilities", "Total Equity", "Revenue", "Gross Profit",
    "Net Income", "EBIT", "Interest Expense", "Cost of Goods Sold", "Fixed Assets",
    "Accounts Receivable"}

\* the entry says which inputs were missing
NamesMissingInputs(entry) ==
   /\ "missing_fields" \in DOMAIN entry
   /\ entry.missing_fields # <<>>
   /\ Elements(entry.missing_fields) \subseteq InputLabels

\* C12: for each of the 13 fixed ratios, an entry whose ratio could not be
\* obtained has value "N/A", data_quality "incomplete" and a missing_fields
\* list that names the missing inputs by their labels.
C12_UnobtainableRatiosNameMissingInputs ==
   pc = "done" /\ ~dev_mode /\ ~ratios.raised =>
      \A category \in BASE_RATIO_CATEGORIES :
         \A key \in FixedKeys(category) :
            Entry(category, key).value = NA =>
               /\ Entry(category, key).data_quality = "incomplete"
               /\ NamesMissingInputs(Entry(category, key))

\* where the denominator of each fixed ratio lives in a year
DenominatorPath ==
   [key \in DOMAIN BASE_FINANCIAL_RATIOS |->
      CASE key \in {"current_ratio", "quick_ratio"} -> <<"current_liabilities", "total">>
        [] key \in {"gross_profit_margin", "net_profit_margin"} -> <<"income_statement", "revenue">>
        [] key \in {"return_on_equity", "debt_to_equity"} -> <<"equity", "total">>
        [] key \in {"return_on_assets", "debt_ratio", "asset_turnover"} -> <<"totals", "total_assets">>
        [] key = "interest_coverage" -> <<"income_statement", "interest_expense">>
        [] key = "fixed_asset_turnover" -> <<"non_current_assets", "breakdown", "fixed_assets">>
        [] key = "inventory_turnover" -> <<"current_assets", "breakdown", "inventories">>
        [] key = "debtors_turnover" -> <<"current_assets", "breakdown", "accounts_receivable">>]

\* the fixed ratios that divide by the average of the two years
DividesByAverage ==
   {"return_on_equity", "return_on_assets", "asset_turnover", "fixed_asset_turnover",
    "inventory_turnover", "debtors_turnover"}

\* the denominator the fixed ratio of a key is computed with
DenominatorOf(rec, key) ==
   IF key \in DividesByAverage
   THEN calculate_average(get_path(CurrentYearOf(rec), DenominatorPath[key]),
                          get_path(get(rec, "previous_year", EmptyDict), DenominatorPath[key]))
   ELSE get_path(CurrentYearOf(rec), DenominatorPath[key])

\* the dict with the leaf at the path set to null
RECURSIVE WithNullAt(_, _)
WithNullAt(d, path) ==
   PyDict([k \in DOMAIN d.f |->
             IF k # path[1] THEN d.f[k]
             ELSE IF Len(path) = 1 THEN None
             ELSE WithNullAt(d.f[k], Tail(path))])

\* the record with the leaf at the path of its current year set to null
WithNullDenominator(rec, key) ==
   IF "current_year" \in DOMAIN rec.f
   THEN PyDict([k \in DOMAIN rec.f |->
                  IF k = "current_year" THEN WithNullAt(rec.f[k], DenominatorPath[key])
                  ELSE rec.f[k]])
   ELSE WithNullAt(rec, DenominatorPath[key])

\* the entry of a fixed ratio in the output for a record
FixedEntryFor(rec, category, key) ==
   calculate_all_ratios(rec, <<>>, FALSE, BASE_FINANCIAL_RATIOS, set_order).ratios[category][key]

\* C13: for every fixed ratio a denominator that is exactly zero is treated
\* as a missing one: nothing is divided, the value is "N/A", and the entry
\* is the one the same record gets with that denominator null.
C13_ZeroDenominatorIsMissingDenominator ==
   pc = "done" /\ ~dev_mode /\ ~ratios.raised =>
      \A category \in BASE_RATIO_CATEGORIES :
         \A key \in FixedKeys(category) :
            DenominatorOf(record, key) = Num(0) =>
               /\ Entry(category, key).value = NA
               /\ Entry(category, key)
                     = FixedEntryFor(WithNullDenominator(record, key), category, key)

\* the value at a path of the record's current year (None when absent)
ValueAt(rec, path) == get_path(CurrentYearOf(rec), path)

\* the value is a number other than zero
NonZero(v) == v.t = "num" /\ v.n # 0

\* the record has current assets and a non-zero current liabilities total
LiquidityKnown(rec) ==
   /\ ValueAt(rec, <<"current_assets", "total">>).t = "num"
   /\ NonZero(ValueAt(rec, <<"current_liabilities", "total">>))

Known(rec, path) == ValueAt(rec, path).t = "num"

\* total_liabilities is absent, both liability components are present and
\* equity is non-zero
FallbackSituation(rec) ==
   /\ ValueAt(rec, <<"totals", "total_liabilities">>) = None
   /\ Known(rec, <<"current_liabilities", "total">>)
   /\ Known(rec, <<"non_current_liabilities", "total">>)
   /\ NonZero(ValueAt(rec, <<"equity", "total">>))

TaxAddBack(rec) ==
   IF Known(rec, <<"income_statement", "income_tax_expense">>)
   THEN ValueAt(rec, <<"income_statement", "income_tax_expense">>)
   ELSE Num(0)

PreviousValueAt(rec, path) == get_path(get(rec, "previous_year", EmptyDict), path)

\* the average the two years of a record give for a path: half their sum
\* when both have a value, the current value when only the current year
\* has one, and none otherwise
ExpectedAverage(rec, path) ==
   IF Known(rec, path) /\ PreviousValueAt(rec, path).t = "num"
   THEN RatDiv(RatAdd(ValueAt(rec, path), PreviousValueAt(rec, path)), Num(2))
   ELSE IF Known(rec, path) THEN ValueAt(rec, path)
   ELSE None

\* the averaged data calculate_all_ratios prepares for a record
AveragedOf(rec) ==
   _prepare_averaged_data(CurrentYearOf(rec), get(rec, "previous_year", EmptyDict)).items

\* the entry of a ratio that divides a current-year amount by an average
DividedByAverage(entry, amount, average, scale) ==
   IF amount.t = "num" /\ NonZero(average)
   THEN entry.value = Round2(RatMul(RatDiv(amount, average), Num(scale)))
   ELSE entry.value = NA

RawResult(rec, custom_ratio) ==
   evaluate_custom(custom_ratio.f["formula"],
                   [t |-> "odict", items |-> FlattenedOf(rec)], set_order)

\* the raw result as a custom ratio of a unit reports it, before rounding
Reported(unit, raw) ==
   IF unit # Str("%") THEN raw
   ELSE IF RatLess(raw, Num(10)) THEN RatMul(raw, Num(100))
   ELSE raw

\* C18: a successfully evaluated custom ratio with unit "%" reports the raw
\* result times 100 when the raw result is below 10 and the raw result
\* itself otherwise; with any other unit it reports the raw result; all
\* rounded to 2 decimals.
C18_PercentHeuristic ==
   pc = "done" /\ dev_mode /\ ~ratios.raised =>
      \A i \in 1..Len(custom_ratios) :
         RawResult(record, custom_ratios[i]).success =>
            /\ EntryOf(custom_ratios[i]).value
                  = Round2(Reported(get(custom_ratios[i], "unit", Str("ratio")),
                                    RawResult(record, custom_ratios[i]).result))
            /\ EntryOf(custom_ratios[i]).data_quality = "complete"

\* a "%" custom ratio whose raw result is 150 / 2000 = 0.075 reports 7.5,
\* next to a "number" one that reports its raw result
C18_Witness ==
   /\ pc = "done" /\ dev_mode /\ ~ratios.raised
   /\ record = RecordTwoYears
   /\ custom_ratios = <<CustomTotalEquity, CustomNetMargin>>
   /\ RawResult(record, CustomNetMargin).success
   /\ RawResult(record, CustomNetMargin).result = Rat(3, 40)
   /\ EntryOf(CustomNetMargin).value = Rat(15, 2)
   /\ EntryOf(CustomTotalEquity).value = RawResult(record, CustomTotalEquity).result

(***************************************************************************)
(* Properties of the custom ratios, checked under Spec.                    *)
(***************************************************************************)
\* the formula divides by a literal zero: its tree has a division whose
\* right operand is the number 0
DividesByLiteralZero(text) ==
   \E i \in 1..Len(TreeNodes(text)) :
      /\ TreeNodes(text)[i].k = "BinOp"
      /\ TreeNodes(text)[i].op = "Div"
      /\ TreeNodes(text)[i].right.k = "Constant"
      /\ TreeNodes(text)[i].right.value = Num(0)

HasLiteralZeroFormula(custom_ratio) ==
   /\ "formula" \in DOMAIN custom_ratio.f
   /\ custom_ratio.f["formula"].t = "str"
   /\ DividesByLiteralZero(custom_ratio.f["formula"].s)

\* C19: a custom ratio whose formula divides by a literal zero is rejected
\* by the pre-validation with "Division by zero detected in formula", and
\* its formula is not handed to evaluate_formula, neither by a call of
\* calculate_all_ratios nor by POST /recalculate.
C19_LiteralZeroNeverEvaluated ==
   pc \in {"done", "recalculated"} =>
      \A i \in 1..Len(custom_ratios) :
         HasLiteralZeroFormula(custom_ratios[i]) =>
            /\ validate_custom_ratio(custom_ratios[i])
                  = Rejected("Division by zero detected in formula")
            /\ custom_ratios[i].f["formula"] \notin Elements(evaluation)

\* the variable map has the key with the value the current year has at the
\* path
Offers(rec, key, path) ==
   /\ HasKey(FlattenedOf(rec), key)
   /\ DictGet(FlattenedOf(rec), key) = ValueAt(rec, path)

\* C20: the flattened variable map of a record has every income-statement
\* line and each of the three aggregate totals of the current year that has
\* a non-null value, under its name and with that value, and no key of the
\* map has a null value.
C20_FlattenedMapIsComplete ==
   pc = "done" /\ ~ratios.raised =>
      /\ \A line \in IncomeStatement :
            Known(record, <<"income_statement", line>>) =>
               Offers(record, line, <<"income_statement", line>>)
      /\ \A total \in Totals :
            Known(record, <<"totals", total>>) => Offers(record, total, <<"totals", total>>)
      /\ \A i \in 1..Len(FlattenedOf(record)) : FlattenedOf(record)[i][2] # None

(***************************************************************************)
(* Properties of merge_financial_data, checked under SpecMerge.  A record  *)
(* is compared as the document it stands for: its dicts and lists with     *)
(* every reference followed.                                               *)
(***************************************************************************)
\* the document the extraction of the i-th image gave, before the merge
given(i) ==
   LET read == extract_financial_data_from_image(<<>>, images[i])
   IN dumps(read.heap, read.value)

\* the i-th source as it is now
source(i) == dumps(objects, extraction_results[i].data)

\* the call of merge_financial_data has returned a tuple
returned == pc = "merged" /\ ~IsRaised(merged_data)

\* the record the call returned
merged_record == dumps(objects, merged_data.data)

\* a document is empty: None, {}, [], 0 or ""
is_empty(v) ==
   IF v.t = "dict" THEN DOMAIN v.f = {}
   ELSE IF v.t = "list" THEN v.items = <<>>
   ELSE ~Truthy(v)

\* the year of a document has a field other than year that is not empty
has_data(year) ==
   year.t = "dict" /\ \E k \in DOMAIN year.f : k # "year" /\ ~is_empty(year.f[k])

\* the all_years a record without one is to get: its current_year when it
\* has one, then its previous_year when that has data
populated_years(document) ==
   (IF "current_year" \in DOMAIN document.f /\ ~is_empty(document.f.current_year)
       THEN <<document.f.current_year>> ELSE <<>>)
   \o (IF "previous_year" \in DOMAIN document.f /\ has_data(document.f.previous_year)
          THEN <<document.f.previous_year>> ELSE <<>>)

\* C21: merge_financial_data on a single source returns that source's
\* record and confidence with every field unchanged, except that all_years
\* is populated from current_year / previous_year when the record had none
C21_SingleSourceUnchanged ==
   (pc = "merged" /\ Len(images) = 1) =>
      /\ ~IsRaised(merged_data)
      /\ merged_data.data = extraction_results[1].data
      /\ merged_data.confidence = images[1].confidence
      /\ DOMAIN merged_record.f = DOMAIN given(1).f \cup {"all_years"}
      /\ \A k \in DOMAIN given(1).f : merged_record.f[k] = given(1).f[k]
      /\ "all_years" \notin DOMAIN given(1).f =>
            merged_record.f.all_years = PyList(populated_years(given(1)))

\* a single document with two years and no all_years came back with both
\* years in all_years
C21_Witness ==
   /\ pc = "merged" /\ images = <<DocumentTwoYears>>
   /\ "all_years" \notin DOMAIN given(1).f
   /\ Len(merged_record.f.all_years.items) = 2
   /\ merged_record.f.current_year = given(1).f.current_year

\* the fields of a document: every path of keys that ends at a value which
\* is not a dict, with that value
RECURSIVE leaves(_, _)
leaves(document, path) ==
   IF document.t = "dict"
      THEN UNION {leaves(document.f[k], Append(path, k)) : k \in DOMAIN document.f}
      ELSE {<<path, document>>}

Absent == [t |-> "absent"]

\* the value a document has at a path
RECURSIVE at(_, _)
at(document, path) ==
   IF path = <<>> THEN document
   ELSE IF document.t = "dict" /\ Head(path) \in DOMAIN document.f
      THEN at(document.f[Head(path)], Tail(path))
      ELSE Absent

is_null(v) == v.t \in {"none", "absent"}

\* the years merge_financial_data reads from a source: its current_year,
\* or the source itself when it has none, and its previous_year
current_of(document) ==
   IF "current_year" \in DOMAIN document.f THEN document.f.current_year ELSE document

previous_of(document) ==
   IF "previous_year" \in DOMAIN document.f THEN document.f.previous_year ELSE EmptyDict

\* merged holds every non-null field of the years a and b: the larger one
\* when both are numbers, the one that is not null when the other is
is_union(merged, a, b) ==
   \A field \in leaves(a, <<>>) \cup leaves(b, <<>>) :
      LET in_a == at(a, field[1])
          in_b == at(b, field[1])
          in_merged == at(merged, field[1])
      IN ~is_null(field[2]) =>
            /\ ~is_null(in_merged)
            /\ IsNum(in_a) /\ IsNum(in_b) =>
                  /\ in_merged \in {in_a, in_b}
                  /\ ~RatLess(in_merged, in_a) /\ ~RatLess(in_merged, in_b)
            /\ is_null(in_a) /\ in_b.t # "dict" => in_merged = in_b
            /\ is_null(in_b) /\ in_a.t # "dict" => in_merged = in_a

values_of(year) ==
   {field \in leaves(year, <<>>) : field[1] # <<"year">> /\ ~is_null(field[2])}

\* the previous-year values the sources supplied
supplied_previous_values ==
   UNION {values_of(previous_of(given(i))) : i \in 1..Len(images)}

\* C23: after merge_financial_data on two or more sources, previous_year is
\* the empty record {} when no source supplied a previous-year value other
\* than the year, not a skeleton of null fields, and it is kept when it has
\* a field other than year with a value, a value of 0 included
C23_EmptyPreviousYearNormalized ==
   (returned /\ Len(images) >= 2) =>
      /\ supplied_previous_values = {} => merged_record.f.previous_year = EmptyDict
      /\ supplied_previous_values # {} =>
            supplied_previous_values \subseteq
               {<<field[1], at(merged_record.f.previous_year, field[1])>> :
                   field \in supplied_previous_values}
            \cup values_of(merged_record.f.previous_year)

\* C24: in every record merge_financial_data returns with a non-empty
\* all_years, all_years[0] has the year and the field values of the merged
\* current_year, whatever sources have an all_years of their own
C24_FirstYearIsCurrentYear ==
   (returned /\ merged_record.f.all_years.items # <<>>) =>
      /\ at(merged_record.f.all_years.items[1], <<"year">>)
            = at(merged_record.f.current_year, <<"year">>)
      /\ values_of(merged_record.f.all_years.items[1])
            = values_of(merged_record.f.current_year)

\* C25: merge_financial_data is total: for every non-empty sequence of
\* sources, those whose current_year or previous_year is null, empty or
\* missing included, it returns a record and a confidence and raises
\* nothing
C25_MergeIsTotal ==
   pc = "merged" =>
      /\ ~IsRaised(merged_data)
      /\ merged_record.t = "dict"
      /\ merged_data.confidence.t = "float"

\* C26: merge_financial_data has no effect on its inputs: when it returns,
\* every source record, its nested groups and the entries of its all_years
\* included, has the value it had before the call
C26_SourcesUnchanged ==
   pc = "merged" => \A i \in 1..Len(images) : source(i) = given(i)

\* the values the sources have for a field of a year
supplied(year_of(_), path) ==
   {at(year_of(given(i)), path) : i \in 1..Len(images)} \ {None, Absent}

\* every field of a merged year is the largest of the values the sources
\* have for it, and null when they have none
is_largest(year, year_of(_)) ==
   \A field \in leaves(year, <<>>) :
      IF supplied(year_of, field[1]) = {} THEN is_null(field[2])
      ELSE /\ field[2] \in supplied(year_of, field[1])
           /\ \A v \in supplied(year_of, field[1]) : ~RatLess(field[2], v)

\* the sources in another order
orders == {order \in [1..Len(images) -> 1..Len(images)] :
              \A i, j \in 1..Len(images) : order[i] = order[j] => i = j}

\* C29: for two or more sources of one structure whose leaves are numbers
\* or null, the fields of the merged current_year and previous_year and the
\* average confidence do not depend on the order of the sources: a merged
\* leaf is the largest of the sources' values for it, or null when all are
\* null, and the confidence is the one every other order gives
C29_MergeIndependentOfOrder ==
   (returned /\ Len(images) >= 2 /\ \A i \in 1..Len(images) : images[i] \in SameStructure) =>
      /\ is_largest(merged_record.f.current_year, current_of)
      /\ is_largest(merged_record.f.previous_year, previous_of)
      /\ \A order \in orders :
            merged_data.confidence
               = avg_confidence([i \in 1..Len(images) |-> images[order[i]].confidence])

readable == file = NoFile \/ file.json

\* the list it would return
stored_ratios == IF file # NoFile /\ file.json THEN file.value.f["ratios"].items
                 ELSE <<>>

\* the ratio has the id or the name
has_id_or_name(ratio, ratio_id) ==
   \/ "id" \in DOMAIN ratio.f /\ ratio.f["id"] = Str(ratio_id)
   \/ "name" \in DOMAIN ratio.f /\ ratio.f["name"] = Str(ratio_id)

matching(list, ratio_id) == {i \in 1..Len(list) : has_id_or_name(list[i], ratio_id)}

\* `after` is `before` without the ratios of that id or name: there is a
\* way to map the places of `after` into those of `before` that keeps the
\* order and leaves out the matching ratios only
is_deleted(before, after, ratio_id) ==
   /\ matching(after, ratio_id) = {}
   /\ Len(after) = Len(before) - Cardinality(matching(before, ratio_id))
   /\ \A i \in 1..Len(after) :
         after[i] = before[Min({j \in 1..Len(before) :
                       Cardinality((1..j) \ matching(before, ratio_id)) = i})]

\* `after` is `before` with its first ratio of that id or name replaced
is_updated(before, after, ratio_id, ratio) ==
   /\ matching(before, ratio_id) # {}
   /\ Len(after) = Len(before)
   /\ \A i \in 1..Len(before) :
         after[i] = IF i = Min(matching(before, ratio_id)) THEN ratio ELSE before[i]

\* `after` is `before` with the ratio at its end
is_added(before, after, ratio) ==
   /\ Len(after) = Len(before) + 1
   /\ after[Len(after)] = ratio
   /\ \A i \in 1..Len(before) : after[i] = before[i]

\* the call did to the list it loaded what its function does, and nothing
\* else
is_change(call) ==
   CASE call.call = "add" ->
           is_added(call.existing_ratios, call.custom_ratios, call.ratio)
     [] call.call = "update" ->
           is_updated(call.existing_ratios, call.custom_ratios, call.ratio_id, call.ratio)
     [] call.call = "delete" ->
           /\ matching(call.existing_ratios, call.ratio_id) # {}
           /\ is_deleted(call.existing_ratios, call.custom_ratios, call.ratio_id)

succeeded(w) == writers[w].pc = "returned" /\ writers[w].returned.success

\* C28: add, update and delete are a load followed by a save and not one
\* step: a writer that returned success saved the list it had loaded with
\* its own change, and a file that can be read after a successful call
\* holds the list of one such writer and nothing of what the other saved
\* between that writer's load and its save.  So when both writers added a
\* ratio to the list both had loaded, the file holds one of the two ratios
\* only.
C28_LoadThenSave ==
   /\ \A w \in Writers : succeeded(w) => is_change(writers[w])
   /\ (\E w \in Writers : succeeded(w)) /\ readable =>
         \E w \in Writers : succeeded(w) /\ stored_ratios = writers[w].custom_ratios
   /\ \A w, v \in Writers :
         /\ w # v /\ succeeded(w) /\ succeeded(v) /\ readable
         /\ writers[w].call = "add" /\ writers[v].call = "add"
         /\ writers[w].existing_ratios = writers[v].existing_ratios
         => /\ Len(stored_ratios) = Len(writers[w].existing_ratios) + 1
            /\ stored_ratios[Len(stored_ratios)] \in {writers[w].ratio, writers[v].ratio}

\* both writers ran add_custom_ratio on a file of one ratio, each with a
\* ratio of its own, and both returned (True, None); the file holds two
\* ratios, the one it had and the first writer's: the second writer's ratio
\* is lost
C28_Witness ==
   /\ \A w \in Writers : succeeded(w) /\ writers[w].call = "add"
                         /\ writers[w].returned = Result(TRUE, None)
                         /\ writers[w].existing_ratios = <<StoredLeverage>>
   /\ writers["first"].ratio = StoredMargin
   /\ writers["second"].ratio = StoredUnnamed
   /\ stored_ratios = <<StoredLeverage, StoredMargin>>
   /\ \A i \in 1..Len(stored_ratios) : stored_ratios[i] # StoredUnnamed

the_call == writers["caller"]

\* C30: with one caller, a successful delete_custom_ratio(x) leaves no
\* stored ratio whose id or name is x and keeps every other ratio in its
\* place in the order; a successful update_custom_ratio(x, r) replaces the
\* first ratio whose id or name is x and no other; a delete or update whose
\* x no stored ratio has returns failure and leaves the stored list as it
\* was
C30_DeleteAndUpdate ==
   /\ the_call.call = "delete" /\ the_call.returned.success =>
         /\ \A i \in 1..Len(stored_ratios) :
               ~has_id_or_name(stored_ratios[i], the_call.ratio_id)
         /\ is_deleted(the_call.existing_ratios, stored_ratios, the_call.ratio_id)
   /\ the_call.call = "update" /\ the_call.returned.success =>
         is_updated(the_call.existing_ratios, stored_ratios,
                    the_call.ratio_id, the_call.ratio)
   /\ /\ the_call.call \in {"delete", "update"}
      /\ matching(the_call.existing_ratios, the_call.ratio_id) = {}
      => /\ ~the_call.returned.success
         /\ stored_ratios = the_call.existing_ratios

\* delete_custom_ratio("margin") on a list of three returned success: the
\* ratio of that id and the ratio of that name are gone, the one between
\* them is left
C30_Witness ==
   /\ the_call.call = "delete" /\ the_call.ratio_id = "margin"
   /\ the_call.returned = Result(TRUE, None)
   /\ the_call.existing_ratios = <<StoredMargin, StoredUnnamed, StoredLeverage>>
   /\ stored_ratios = <<StoredUnnamed>>

====
